---- MODULE Spec2Model ----
(***************************************************************************)
(* Model of the static-analysis core: the PEP 257 validator                *)
(* (core/validator/validator.py), the coverage aggregator                  *)
(* (core/reporter/coverage_reporter.py) and the file walker / extractor    *)
(* (core/parser/python_parser.py).                                         *)
(*                                                                         *)
(* A Python str is a sequence of one-character strings, so that strip,     *)
(* split, startswith and endswith are computed character by character.     *)
(* A Python list is a sequence; list index i of the source is At(s, i).    *)
(***************************************************************************)
EXTENDS Integers, Sequences, FiniteSets, TLC

VARIABLES
    disk,            \* the filesystem: path -> file (readable flag, text)
    scan_results,    \* validate_project's argument: the FileRecord list
    vpc,             \* validate_project's position
    file_idx,        \* number of records validate_project's first loop has done
    violations,      \* PEP257Validator.violations (self.violations)
    all_violations,  \* validate_project's all_violations
    report,          \* the ValidationReport returned by the last call, or None
    seen,            \* per record validated so far: the source loaded, the list returned
    prev_report,     \* the report of the call before the last one, or None
    prev_seen,       \* seen, as that call left it
    calls,           \* number of validate_project calls started
    per_file_results,               \* compute_coverage's argument
    cpc,                            \* compute_coverage's position
    cov_idx,                        \* number of records its loop has done
    cov_total_functions,            \* compute_coverage's total_functions
    successfully_parsed_functions,  \* its successfully_parsed_functions
    total_parsing_errors,           \* its total_parsing_errors
    file_stats,                     \* its file_stats
    coverage_report,                \* the report it returned, or None
    fs_dirs,         \* directory path -> the names of its directories and files
    fs_files,        \* file path -> what the file holds
    ppc,             \* parse_path's position
    path_arg,        \* parse_path's path
    recursive,       \* parse_path's recursive
    skip_dirs,       \* parse_path's skip_dirs
    path_results,    \* parse_path's results
    walk_stack,      \* the directories os.walk has yet to yield, next first
    walk_root,       \* root of the directory os.walk yielded last
    walk_dirs,       \* its dirs, pruned
    walk_files,      \* the files of it the loop has yet to do
    discovered,      \* paths of the files parse_file was called on, in order
    runs,            \* for each parse_file call, the statement that raised
    returned,        \* the calls of parse_path that returned, with their file paths
    ex_tree,         \* the module body ast.parse returned
    xpc,             \* position of the extraction
    ex_functions,    \* what parse_functions returned
    ex_classes       \* what parse_classes returned

vvars == <<disk, scan_results, vpc, file_idx, violations, all_violations,
           report, seen, prev_report, prev_seen, calls>>

cvars == <<per_file_results, cpc, cov_idx, cov_total_functions,
           successfully_parsed_functions, total_parsing_errors, file_stats,
           coverage_report>>

pvars == <<fs_dirs, fs_files, ppc, path_arg, recursive, skip_dirs, path_results,
           walk_stack, walk_root, walk_dirs, walk_files, discovered, runs, returned>>

xvars == <<ex_tree, xpc, ex_functions, ex_classes>>

vars == <<vvars, cvars, pvars, xvars>>

-----------------------------------------------------------------------------
(* Python values and str methods *)

DQ == "\""
SQ == "'"
NL == "\n"
SP == " "
DQ3 == <<DQ, DQ, DQ>>
SQ3 == <<SQ, SQ, SQ>>

\* Python None, for Optional[str] values: no str holds a many-character item.
None == <<"None">>

\* bool(x) for an Optional[str] or a list
Truthy(x) == x # None /\ x # <<>>

\* an Optional[Dict] argument: <<d>> for the dict d, NoDict for None
NoDict == <<>>

\* list index: s[i] of the source, 0-based
At(s, i) == s[i + 1]

\* str.startswith, str.endswith
StartsWith(s, p) == Len(s) >= Len(p) /\ SubSeq(s, 1, Len(p)) = p
EndsWith(s, p) == Len(s) >= Len(p) /\ SubSeq(s, Len(s) - Len(p) + 1, Len(s)) = p

\* c in s
Contains(s, c) == \E i \in 1..Len(s) : s[i] = c

\* the characters str.strip() removes
Whitespace == {SP, NL}

RECURSIVE LStripChars(_, _)
LStripChars(s, cs) ==
    IF s # <<>> /\ Head(s) \in cs THEN LStripChars(Tail(s), cs) ELSE s

RECURSIVE RStripChars(_, _)
RStripChars(s, cs) ==
    IF s # <<>> /\ s[Len(s)] \in cs
    THEN RStripChars(SubSeq(s, 1, Len(s) - 1), cs)
    ELSE s

\* str.strip(chars): removes leading and trailing characters that are in chars
StripChars(s, cs) == RStripChars(LStripChars(s, cs), cs)

\* str.strip(), str.rstrip()
Strip(s) == StripChars(s, Whitespace)
RStrip(s) == RStripChars(s, Whitespace)

\* index (1-based) of the first c in s, 0 when there is none
FirstIndex(s, c) ==
    IF Contains(s, c)
    THEN CHOOSE i \in 1..Len(s) : s[i] = c /\ \A j \in 1..(i - 1) : s[j] # c
    ELSE 0

\* str.split(c) for a one-character separator
RECURSIVE Split(_, _)
Split(s, c) ==
    LET i == FirstIndex(s, c)
    IN  IF i = 0 THEN <<s>>
        ELSE <<SubSeq(s, 1, i - 1)>> \o Split(SubSeq(s, i + 1, Len(s)), c)

\* "\n".join(lines)
RECURSIVE JoinLines(_)
JoinLines(ls) ==
    IF ls = <<>> THEN <<>>
    ELSE IF Len(ls) = 1 THEN ls[1]
    ELSE ls[1] \o <<NL>> \o JoinLines(Tail(ls))

\* concatenation of the lists ls[1], ls[2], ...: a loop that appends or extends
RECURSIVE Concat(_)
Concat(ls) ==
    IF ls = <<>> THEN <<>> ELSE Head(ls) \o Concat(Tail(ls))

\* sum of the numbers ns[1], ns[2], ...: a loop that accumulates a counter
RECURSIVE Sum(_)
Sum(ns) ==
    IF ns = <<>> THEN 0 ELSE Head(ns) + Sum(Tail(ns))

\* round(num / den * 100, 2), in hundredths of a percent (den > 0)
RoundPercent(num, den) == (2 * 10000 * num + den) \div (2 * den)

-----------------------------------------------------------------------------
(* core/validator/validator.py *)

Violation(code, line, message, file) ==
    [code |-> code, line |-> line, message |-> message, file |-> file]

\* f"{class_name}.{name}" if class_name else name
Location(class_name, name) ==
    IF Truthy(class_name) THEN class_name \o <<".">> \o name ELSE name

_check_blank_lines_after_docstring(source_lines, start_line, docstring, func_name, class_name, file_path) ==
    LET func_def_idx == start_line - 1
        docstring_start_idx == func_def_idx + 1
        docstring_lines == Split(docstring, NL)
        docstring_line_count == Len(docstring_lines)
        docstring_end_idx == docstring_start_idx + docstring_line_count - 1
        line_after_doc == Strip(At(source_lines, docstring_end_idx + 1))
        next_next_line == Strip(At(source_lines, docstring_end_idx + 2))
        location == Location(class_name, func_name)
    IN  IF source_lines = <<>> \/ start_line < 1 THEN <<>>
        ELSE IF /\ docstring_end_idx + 1 < Len(source_lines)
                /\ line_after_doc = <<>>
                /\ docstring_end_idx + 2 < Len(source_lines)
                /\ next_next_line # <<>>
                /\ ~StartsWith(next_next_line, <<"d", "e", "f", SP>>)
                /\ ~StartsWith(next_next_line, <<"c", "l", "a", "s", "s", SP>>)
        THEN << Violation("D202", docstring_end_idx + 2,
                          <<"D202", ": No blank lines allowed after ", "function", " docstring in ">>
                              \o location \o <<" (found 1)">>,
                          file_path) >>
        ELSE <<>>

_validate_docstring_format_two_lines(docstring, start_line, file_path, source_lines, name, is_function, class_name, func_obj) ==
    LET doc_content == Strip(StripChars(StripChars(docstring, {DQ}), {SQ}))
        lines == Split(doc_content, NL)
        location == Location(class_name, name)
        is_one_liner ==
            Cardinality({i \in 1..Len(lines) : Strip(lines[i]) # <<>>}) = 1
        first_line == IF lines # <<>> THEN Strip(At(lines, 0)) ELSE <<>>
        d300 ==
            IF ~StartsWith(Strip(docstring), DQ3)
            THEN << Violation("D300", start_line,
                      <<"D300", ": Use triple double quotes for docstrings in ">> \o location,
                      file_path) >>
            ELSE <<>>
        d200 ==
            IF is_one_liner /\ Contains(Strip(doc_content), NL)
            THEN << Violation("D200", start_line,
                      <<"D200", ": One-line docstring should fit on one line in ">> \o location,
                      file_path) >>
            ELSE <<>>
        d209 ==
            IF /\ ~is_one_liner
               /\ ~EndsWith(RStrip(docstring), <<NL>> \o DQ3)
               /\ ~EndsWith(RStrip(docstring), <<NL>> \o SQ3)
            THEN << Violation("D209", start_line,
                      <<"D209", ": Multi-line docstring closing quotes should be on separate line in ">>
                          \o location,
                      file_path) >>
            ELSE <<>>
        d205 ==
            IF ~is_one_liner /\ Len(lines) > 1 /\ Strip(At(lines, 1)) # <<>>
            THEN << Violation("D205", start_line + 1,
                      <<"D205", ": 1 blank line required between summary and description in ">>
                          \o location,
                      file_path) >>
            ELSE <<>>
        d400 ==
            IF /\ first_line # <<>>
               /\ ~(\E c \in {".", "!", "?"} : EndsWith(first_line, <<c>>))
            THEN << Violation("D400", start_line,
                      <<"D400", ": First line should end with a period in ">> \o location,
                      file_path) >>
            ELSE <<>>
        d402 ==
            IF /\ is_function
               /\ first_line # <<>>
               /\ Contains(first_line, "(")
               /\ Contains(first_line, ")")
            THEN << Violation("D402", start_line,
                      <<"D402", ": First line should not be the ", "function", "'s signature in ">>
                          \o location,
                      file_path) >>
            ELSE <<>>
        d202 ==
            IF source_lines # <<>> /\ func_obj # NoDict /\ is_function
            THEN _check_blank_lines_after_docstring(source_lines, start_line, docstring,
                                                    name, class_name, file_path)
            ELSE <<>>
    IN  IF ~Truthy(docstring) THEN <<>>
        ELSE d300 \o d200 \o d209 \o d205 \o d400 \o d402 \o d202

_validate_docstring_format(docstring, start_line, file_path, source_lines, name, is_function, class_name, func_obj) ==
    LET doc_content == Strip(StripChars(StripChars(docstring, {DQ}), {SQ}))
        lines == Split(doc_content, NL)
        location == Location(class_name, name)
        is_one_liner ==
            Cardinality({i \in 1..Len(lines) : Strip(lines[i]) # <<>>}) = 1
        first_line == IF lines # <<>> THEN Strip(At(lines, 0)) ELSE <<>>
        d300 ==
            IF ~StartsWith(Strip(docstring), DQ3)
            THEN << Violation("D300", start_line,
                      <<"D300", ": Use triple double quotes for docstrings in ">> \o location,
                      file_path) >>
            ELSE <<>>
        d200 ==
            IF is_one_liner /\ Contains(Strip(doc_content), NL)
            THEN << Violation("D200", start_line,
                      <<"D200", ": One-line docstring should fit on one line in ">> \o location,
                      file_path) >>
            ELSE <<>>
        d209 ==
            IF /\ ~is_one_liner
               /\ ~EndsWith(RStrip(docstring), <<NL>> \o DQ3)
               /\ ~EndsWith(RStrip(docstring), <<NL>> \o SQ3)
            THEN << Violation("D209", start_line,
                      <<"D209", ": Multi-line docstring closing quotes should be on separate line in ">>
                          \o location,
                      file_path) >>
            ELSE <<>>
        d205 ==
            IF ~is_one_liner /\ Len(lines) > 2 /\ Strip(At(lines, 1)) # <<>>
            THEN << Violation("D205", start_line + 1,
                      <<"D205", ": 1 blank line required between summary and description in ">>
                          \o location,
                      file_path) >>
            ELSE <<>>
        d400 ==
            IF /\ first_line # <<>>
               /\ ~(\E c \in {".", "!", "?"} : EndsWith(first_line, <<c>>))
            THEN << Violation("D400", start_line,
                      <<"D400", ": First line should end with a period in ">> \o location,
                      file_path) >>
            ELSE <<>>
        d402 ==
            IF /\ is_function
               /\ first_line # <<>>
               /\ Contains(first_line, "(")
               /\ Contains(first_line, ")")
            THEN << Violation("D402", start_line,
                      <<"D402", ": First line should not be the ", "function", "'s signature in ">>
                          \o location,
                      file_path) >>
            ELSE <<>>
        d202 ==
            IF source_lines # <<>> /\ func_obj # NoDict /\ is_function
            THEN _check_blank_lines_after_docstring(source_lines, start_line, docstring,
                                                    name, class_name, file_path)
            ELSE <<>>
    IN  IF ~Truthy(docstring) THEN <<>>
        ELSE d300 \o d200 \o d209 \o d205 \o d400 \o d402 \o d202

_validate_function(func, file_path, source_lines, is_method, class_name) ==
    LET func_name == func.name
        start_line == func.start_line
        has_docstring == func.has_docstring
        docstring == func.docstring
        code == IF is_method THEN "D102" ELSE "D103"
        location == Location(class_name, func_name)
        func_def_line == start_line - 1
        d201 ==
            IF /\ source_lines # <<>>
               /\ start_line > 0
               /\ start_line < Len(source_lines)
               /\ func_def_line + 1 < Len(source_lines)
               /\ Strip(At(source_lines, func_def_line + 1)) = <<>>
               /\ func_def_line + 2 < Len(source_lines)
               /\ \/ StartsWith(Strip(At(source_lines, func_def_line + 2)), DQ3)
                  \/ StartsWith(Strip(At(source_lines, func_def_line + 2)), SQ3)
            THEN << Violation("D201", func_def_line + 2,
                      <<"D201", ": No blank lines allowed before ", "function", " docstring in ">>
                          \o location,
                      file_path) >>
            ELSE <<>>
    IN  IF StartsWith(func_name, <<"_">>) /\ ~StartsWith(func_name, <<"_", "_">>)
        THEN <<>>
        ELSE IF ~has_docstring
        THEN << Violation(code, start_line,
                  <<code, ": Missing docstring in public ",
                    IF is_method THEN "method" ELSE "function", " ">> \o location,
                  file_path) >>
        ELSE d201 \o
             (IF Truthy(docstring)
              THEN _validate_docstring_format(docstring, start_line, file_path,
                       source_lines, func_name, TRUE, class_name, <<func>>)
              ELSE <<>>)

_validate_class(cls, file_path, source_lines) ==
    LET class_name == cls.name
        start_line == cls.start_line
        has_docstring == cls.has_docstring
        docstring == cls.docstring
        methods == cls.methods
    IN  IF StartsWith(class_name, <<"_">>) THEN <<>>
        ELSE (IF ~has_docstring
              THEN << Violation("D101", start_line,
                        <<"D101", ": Missing docstring in public ", "class", " ">> \o class_name,
                        file_path) >>
              ELSE IF Truthy(docstring)
              THEN _validate_docstring_format(docstring, start_line, file_path,
                       source_lines, class_name, FALSE, None, NoDict)
              ELSE <<>>)
             \o Concat([i \in 1..Len(methods) |->
                    _validate_function(methods[i], file_path, source_lines, TRUE,
                                       class_name)])

\* open(file_path).read(), None when the open or the read raises
ReadSource(d, file_path) ==
    IF file_path \in DOMAIN d /\ d[file_path].readable
    THEN d[file_path].text
    ELSE None

\* validate_file's "Load source code if available"
LoadSource(d, file_path, source_code) ==
    IF source_code = None /\ Truthy(file_path)
    THEN ReadSource(d, file_path)
    ELSE source_code

\* validate_file returning early when no source could be loaded
validate_file_needs_source(file_data, source_code) ==
    LET file_path == file_data.file_path
        source_lines == IF Truthy(source_code) THEN Split(source_code, NL) ELSE <<>>
        functions == file_data.functions
        classes == file_data.classes
    IN  IF source_lines = <<>> THEN <<>>
        ELSE Concat([i \in 1..Len(functions) |->
                _validate_function(functions[i], file_path, source_lines, FALSE, None)])
             \o Concat([i \in 1..Len(classes) |->
                _validate_class(classes[i], file_path, source_lines)])

\* validate_file after the load: the list it returns
validate_file(file_data, source_code) ==
    LET file_path == file_data.file_path
        source_lines == IF Truthy(source_code) THEN Split(source_code, NL) ELSE <<>>
        functions == file_data.functions
        classes == file_data.classes
    IN  Concat([i \in 1..Len(functions) |->
                _validate_function(functions[i], file_path, source_lines, FALSE, None)])
        \o Concat([i \in 1..Len(classes) |->
                _validate_class(classes[i], file_path, source_lines)])

\* not f.get("name", "").startswith("_")
MetricPublic(e) == ~StartsWith(e.name, <<"_">>)

\* len([f for f in items if not f.get("name", "").startswith("_")])
PublicCount(items) == Len(SelectSeq(items, MetricPublic))

\* the documented items counted over all names, public or not
CompliantCount_any_name(items) ==
    Len(SelectSeq(items, LAMBDA e : e.has_docstring))

\* len([f for f in public if f.get("has_docstring", False)])
CompliantCount(items) ==
    Len(SelectSeq(items, LAMBDA e : MetricPublic(e) /\ e.has_docstring))

\* validate_project's "Compute metrics" loop and its return value
ComputeMetrics(results, violation_list) ==
    LET n == Len(results)
        MethodsPublic(fd) ==
            Sum([k \in 1..Len(fd.classes) |-> PublicCount(fd.classes[k].methods)])
        MethodsCompliant(fd) ==
            Sum([k \in 1..Len(fd.classes) |-> CompliantCount(fd.classes[k].methods)])
        total_functions ==
            Sum([i \in 1..n |->
                 PublicCount(results[i].functions) + MethodsPublic(results[i])])
        compliant_functions ==
            Sum([i \in 1..n |->
                 CompliantCount(results[i].functions) + MethodsCompliant(results[i])])
        total_classes == Sum([i \in 1..n |-> PublicCount(results[i].classes)])
        compliant_classes == Sum([i \in 1..n |-> CompliantCount(results[i].classes)])
        total_items == total_functions + total_classes
        compliant_items == compliant_functions + compliant_classes
    IN  [total_violations |-> Len(violation_list),
         violations |-> violation_list,
         total_items |-> total_items,
         compliant_items |-> compliant_items,
         compliance_percentage |->
             IF total_items > 0 THEN RoundPercent(compliant_items, total_items) ELSE 0,
         total_functions |-> total_functions,
         total_classes |-> total_classes,
         compliant_functions |-> compliant_functions,
         compliant_classes |-> compliant_classes]

-----------------------------------------------------------------------------
(* Inputs of the validator: record lists and file contents *)

\* number of records in a list handed to validate_project
MaxFiles == 2
\* number of validate_project calls in one behaviour
MaxCalls == 2

PathA == <<"a", ".", "p", "y">>
PathB == <<"b", ".", "p", "y">>
Paths == {PathA, PathB}

FunctionNames == { <<"f">>, <<"_", "g">>, <<"_", "_", "h">> }
ClassNames == { <<"C">>, <<"_", "D">>, <<"_", "_", "E">> }

\* a one-line docstring in triple double quotes: A.
DocGood == DQ3 \o <<"A", ".">> \o DQ3
\* the shape _get_docstring gives: quotes, newline, A., newline, quotes
DocExtracted == DQ3 \o <<NL, "A", ".", NL>> \o DQ3
\* three lines a() / b / c in triple single quotes
DocBad == SQ3 \o <<"a", "(", ")", NL, "b", NL, "c">> \o SQ3

DocStates ==
    { [has_docstring |-> FALSE, docstring |-> None],
      [has_docstring |-> FALSE, docstring |-> DocBad],
      [has_docstring |-> TRUE, docstring |-> None],
      [has_docstring |-> TRUE, docstring |-> DocGood],
      [has_docstring |-> TRUE, docstring |-> DocExtracted],
      [has_docstring |-> TRUE, docstring |-> DocBad] }

FunctionRecord(name, line, ds) ==
    [name |-> name, start_line |-> line, end_line |-> line + 2,
     has_docstring |-> ds.has_docstring, docstring |-> ds.docstring]

ClassRecord(name, line, ds, methods) ==
    [name |-> name, methods |-> methods, start_line |-> line, end_line |-> line + 3,
     has_docstring |-> ds.has_docstring, docstring |-> ds.docstring]

FileRecord(path, functions, classes) ==
    [file_path |-> path, imports |-> <<>>, parsing_errors |-> <<>>,
     functions |-> functions, classes |-> classes]

\* the records of a.py: one function at line 1, or one class at line 1 with at
\* most one method at line 2, or nothing
RichFiles(fnames, cnames) ==
    { FileRecord(PathA, <<>>, <<>>) }
    \cup { FileRecord(PathA, <<FunctionRecord(n, 1, ds)>>, <<>>) :
             n \in fnames, ds \in DocStates }
    \cup { FileRecord(PathA, <<>>, <<ClassRecord(cn, 1, cds, <<>>)>>) :
             cn \in cnames, cds \in DocStates }
    \cup { FileRecord(PathA, <<>>,
                      <<ClassRecord(cn, 1, cds, <<FunctionRecord(n, 2, ds)>>)>>) :
             cn \in cnames, cds \in DocStates, n \in fnames, ds \in DocStates }

\* the records of b.py
FileMixedB ==
    FileRecord(PathB,
        << FunctionRecord(<<"f">>, 1, [has_docstring |-> TRUE, docstring |-> DocGood]) >>,
        << ClassRecord(<<"C">>, 4, [has_docstring |-> FALSE, docstring |-> None],
             << FunctionRecord(<<"_", "_", "h">>, 5,
                               [has_docstring |-> FALSE, docstring |-> None]) >>) >>)

SimpleFiles == { FileRecord(PathB, <<>>, <<>>), FileMixedB }

\* the lists of at most MaxFiles records with at most one record of rich
ScanLists(rich) ==
    UNION { [1..n -> SimpleFiles]
            \cup { [i \in 1..n |-> IF i = p THEN r ELSE s[i]] :
                     p \in 1..n, r \in rich, s \in [1..n -> SimpleFiles] } :
            n \in 0..MaxFiles }

LDef == <<"d", "e", "f", SP, "f", "(", ")", ":">>
LDoc == <<SP>> \o DocGood
LCode == <<SP, "x">>

\* def / docstring / code
SrcTight == JoinLines(<<LDef, LDoc, LCode>>)
\* def / blank / docstring / blank / code
SrcLoose == JoinLines(<<LDef, <<>>, LDoc, <<>>, LCode>>)

DiskFile(readable, text) == [readable |-> readable, text |-> text]
\* a file that is missing or cannot be opened
Unreadable == DiskFile(FALSE, <<>>)
FileContents == { Unreadable, DiskFile(TRUE, <<>>), DiskFile(TRUE, SrcTight),
                  DiskFile(TRUE, SrcLoose) }

-----------------------------------------------------------------------------
(* validate_project, one step per statement group *)

\* validator = PEP257Validator(); all_violations = []
validate_project_call ==
    /\ vpc \in {"idle", "done"}
    /\ calls < MaxCalls
    /\ calls' = calls + 1
    /\ vpc' = "files"
    /\ file_idx' = 0
    /\ violations' = <<>>
    /\ all_violations' = <<>>
    /\ seen' = <<>>
    /\ prev_report' = report
    /\ prev_seen' = seen
    /\ report' = None
    /\ UNCHANGED <<disk, scan_results>>

\* the iteration with a validate_file that does not reset self.violations: the
\* list grows on, and the lists returned before are that same list
validate_file_step_keeps ==
    /\ vpc = "files"
    /\ file_idx < Len(scan_results)
    /\ LET file_data == At(scan_results, file_idx)
           source_code == LoadSource(disk, file_data.file_path, None)
           result == violations \o validate_file(file_data, source_code)
       IN  /\ violations' = result
           /\ all_violations' = all_violations \o result
           /\ seen' = Append([i \in 1..Len(seen) |-> [seen[i] EXCEPT !.result = result]],
                             [source |-> source_code, result |-> result])
    /\ file_idx' = file_idx + 1
    /\ UNCHANGED <<disk, scan_results, vpc, report, prev_report, prev_seen, calls>>

\* one iteration of "for file_data in scan_results": validate_file, then extend
validate_file_step ==
    /\ vpc = "files"
    /\ file_idx < Len(scan_results)
    /\ LET file_data == At(scan_results, file_idx)
           source_code == LoadSource(disk, file_data.file_path, None)
           result == validate_file(file_data, source_code)
       IN  /\ violations' = result
           /\ all_violations' = all_violations \o result
           /\ seen' = Append(seen, [source |-> source_code, result |-> result])
    /\ file_idx' = file_idx + 1
    /\ UNCHANGED <<disk, scan_results, vpc, report, prev_report, prev_seen, calls>>

\* the return with compliant_items taken from the number of violations
validate_project_return_by_violations ==
    /\ vpc = "files"
    /\ file_idx = Len(scan_results)
    /\ report' = LET r == ComputeMetrics(scan_results, all_violations)
                 IN  [r EXCEPT !.compliant_items = r.total_items - r.total_violations]
    /\ vpc' = "done"
    /\ UNCHANGED <<disk, scan_results, file_idx, violations, all_violations, seen,
                   prev_report, prev_seen, calls>>

\* the metrics loop and the return
validate_project_return ==
    /\ vpc = "files"
    /\ file_idx = Len(scan_results)
    /\ report' = ComputeMetrics(scan_results, all_violations)
    /\ vpc' = "done"
    /\ UNCHANGED <<disk, scan_results, file_idx, violations, all_violations, seen,
                   prev_report, prev_seen, calls>>

\* the environment writes a.py between two calls
WriteFile ==
    /\ vpc \in {"idle", "done"}
    /\ \E c \in FileContents \ {Unreadable} :
          /\ disk[PathA] # c
          /\ disk' = [disk EXCEPT ![PathA] = c]
    /\ UNCHANGED <<scan_results, vpc, file_idx, violations, all_violations, report,
                   seen, prev_report, prev_seen, calls>>

\* the environment deletes a.py between two calls
DeleteFile ==
    /\ vpc \in {"idle", "done"}
    /\ disk[PathA] # Unreadable
    /\ disk' = [disk EXCEPT ![PathA] = Unreadable]
    /\ UNCHANGED <<scan_results, vpc, file_idx, violations, all_violations, report,
                   seen, prev_report, prev_seen, calls>>

\* nothing has been extracted
InitExtractState ==
    /\ xpc = "idle"
    /\ ex_functions = <<>>
    /\ ex_classes = <<>>

\* parse_path has not been called
InitParserState ==
    /\ ppc = "idle"
    /\ path_arg = <<>>
    /\ recursive = FALSE
    /\ skip_dirs = <<>>
    /\ path_results = <<>>
    /\ walk_stack = <<>>
    /\ walk_root = <<>>
    /\ walk_dirs = <<>>
    /\ walk_files = <<>>
    /\ discovered = <<>>
    /\ runs = <<>>
    /\ returned = {}

\* compute_coverage has not been called
InitCoverageState ==
    /\ cpc = "idle"
    /\ cov_idx = 0
    /\ cov_total_functions = 0
    /\ successfully_parsed_functions = 0
    /\ total_parsing_errors = 0
    /\ file_stats = <<>>
    /\ coverage_report = None

InitValidatorState ==
    /\ vpc = "idle"
    /\ file_idx = 0
    /\ violations = <<>>
    /\ all_violations = <<>>
    /\ report = None
    /\ seen = <<>>
    /\ prev_report = None
    /\ prev_seen = <<>>
    /\ calls = 0

\* any record list over all names, any file contents
InitValidate ==
    /\ scan_results \in ScanLists(RichFiles(FunctionNames, ClassNames))
    /\ disk \in [Paths -> FileContents \ {DiskFile(TRUE, <<>>)}]
    /\ InitValidatorState
    /\ per_file_results = <<>>
    /\ InitCoverageState
    /\ fs_dirs = <<>>
    /\ fs_files = <<>>
    /\ InitParserState
    /\ ex_tree = <<>>
    /\ InitExtractState

NextValidate ==
    \/ validate_project_call /\ UNCHANGED <<cvars, pvars, xvars>>
    \/ validate_file_step /\ UNCHANGED <<cvars, pvars, xvars>>
    \/ validate_project_return /\ UNCHANGED <<cvars, pvars, xvars>>

SpecValidate == InitValidate /\ [][NextValidate]_vars

\* record lists over public names, a.py edited and deleted between the calls
InitRevalidate ==
    /\ scan_results \in ScanLists(RichFiles({<<"f">>}, {<<"C">>}))
    /\ disk \in [Paths -> FileContents]
    /\ disk[PathB] = DiskFile(TRUE, SrcLoose)
    /\ InitValidatorState
    /\ per_file_results = <<>>
    /\ InitCoverageState
    /\ fs_dirs = <<>>
    /\ fs_files = <<>>
    /\ InitParserState
    /\ ex_tree = <<>>
    /\ InitExtractState

NextRevalidate ==
    \/ validate_project_call /\ UNCHANGED <<cvars, pvars, xvars>>
    \/ validate_file_step /\ UNCHANGED <<cvars, pvars, xvars>>
    \/ validate_project_return /\ UNCHANGED <<cvars, pvars, xvars>>
    \/ WriteFile /\ UNCHANGED <<cvars, pvars, xvars>>
    \/ DeleteFile /\ UNCHANGED <<cvars, pvars, xvars>>

SpecRevalidate == InitRevalidate /\ [][NextRevalidate]_vars

-----------------------------------------------------------------------------
(* The notions the properties of the validator are stated with *)

Range(s) == { s[i] : i \in 1..Len(s) }

\* private by the documented rule: one leading underscore, not two
Private(name) == StartsWith(name, <<"_">>) /\ ~StartsWith(name, <<"_", "_">>)

\* the characters qualified names are made of
NameChars == {"f", "g", "h", "_", "C", "D", "E", "."}

\* the qualified name a message embeds: its run of name characters
QualifiedNameIn(message) == SelectSeq(message, LAMBDA t : t \in NameChars)

Entity(path, kind, code, location, e) ==
    [file |-> path, kind |-> kind, code |-> code, name |-> e.name,
     location |-> location, start_line |-> e.start_line,
     has_docstring |-> e.has_docstring, docstring |-> e.docstring]

\* the top-level functions, classes and methods of a record, each with the code
\* of its missing-docstring rule and its qualified name
EntitiesOf(fd) ==
    { Entity(fd.file_path, "function", "D103", f.name, f) : f \in Range(fd.functions) }
    \cup { Entity(fd.file_path, "class", "D101", c.name, c) : c \in Range(fd.classes) }
    \cup UNION { { Entity(fd.file_path, "method", "D102", c.name \o <<".">> \o m.name, m) :
                     m \in Range(c.methods) } :
                 c \in Range(fd.classes) }

\* the violations of the list vs that are about the entity ent
ViolationsOf(ent, vs) ==
    SelectSeq(vs, LAMBDA v : v.file = ent.file /\ QualifiedNameIn(v.message) = ent.location)

\* the violations of vs whose qualified name has the given name as a component
ViolationsNaming(name, vs) ==
    SelectSeq(vs, LAMBDA v : name \in Range(Split(QualifiedNameIn(v.message), ".")))

\* vs holds the missing-docstring violation of ent, at its start_line
HasMissingDocstring(ent, vs) ==
    \E k \in 1..Len(vs) :
        /\ vs[k].code = ent.code
        /\ vs[k].line = ent.start_line
        /\ vs[k].file = ent.file
        /\ QualifiedNameIn(vs[k].message) = ent.location

\* the rules that read the raw source lines
SourceCodes == {"D201", "D202"}

\* the violations of the rules that read the record alone
RecordOnly(vs) == SelectSeq(vs, LAMBDA v : v.code \notin SourceCodes)

\* a report without the violations of the rules that read the source
SourceFree(r) ==
    [r EXCEPT !.violations = RecordOnly(@),
              !.total_violations = Len(RecordOnly(r.violations))]

SourcesOf(s) == [i \in 1..Len(s) |-> s[i].source]

\* number of items public by the documented rule, and of those, documented
DocumentedPublicCount(items) ==
    Cardinality({ k \in 1..Len(items) : ~Private(items[k].name) })
DocumentedCompliantCount(items) ==
    Cardinality({ k \in 1..Len(items) :
                    ~Private(items[k].name) /\ items[k].has_docstring })

-----------------------------------------------------------------------------
(* Properties of the validator *)

\* C1 (validator soundness): once validate_project has returned, every class,
\* top-level function and method of every record whose has_docstring is false and
\* whose name does not start with "_" has its missing-docstring violation (D101,
\* D103, D102) in the list validate_file returned for the record and in the report,
\* whatever the class that encloses a method.
C1_ValidatorSoundness ==
    vpc = "done" =>
        \A i \in 1..Len(scan_results) : \A ent \in EntitiesOf(scan_results[i]) :
            (~ent.has_docstring /\ ~StartsWith(ent.name, <<"_">>)) =>
                /\ HasMissingDocstring(ent, seen[i].result)
                /\ HasMissingDocstring(ent, report.violations)

\* C2 (public/private rule): once validate_project has returned, an entity whose
\* name is private (one leading underscore, not two) is named by no violation of its
\* record, and every other entity, double-underscore names included, was checked:
\* without a docstring it has its missing-docstring violation, with the
\* single-quoted docstring it has a D300 violation.
C2_PublicPrivateRule ==
    vpc = "done" =>
        \A i \in 1..Len(scan_results) : \A ent \in EntitiesOf(scan_results[i]) :
            /\ Private(ent.name) => ViolationsNaming(ent.name, seen[i].result) = <<>>
            /\ (~Private(ent.name) /\ ~ent.has_docstring) =>
                   HasMissingDocstring(ent, seen[i].result)
            /\ (~Private(ent.name) /\ ent.has_docstring /\ ent.docstring = DocBad) =>
                   \E k \in 1..Len(seen[i].result) :
                       /\ seen[i].result[k].code = "D300"
                       /\ QualifiedNameIn(seen[i].result[k].message) = ent.location

\* C5 (metrics use the rule of the checks): in the report, total_functions is the
\* number of top-level functions and methods that are public by the documented rule
\* (double-underscore names are public), total_classes the number of such classes,
\* and compliant_functions / compliant_classes those of them with has_docstring.
C5_MetricsUsePublicRule ==
    vpc = "done" =>
        LET n == Len(scan_results)
            OfMethods(fd, Count(_)) ==
                Sum([k \in 1..Len(fd.classes) |-> Count(fd.classes[k].methods)])
        IN  /\ report.total_functions =
                  Sum([i \in 1..n |->
                       DocumentedPublicCount(scan_results[i].functions)
                       + OfMethods(scan_results[i], DocumentedPublicCount)])
            /\ report.compliant_functions =
                  Sum([i \in 1..n |->
                       DocumentedCompliantCount(scan_results[i].functions)
                       + OfMethods(scan_results[i], DocumentedCompliantCount)])
            /\ report.total_classes =
                  Sum([i \in 1..n |-> DocumentedPublicCount(scan_results[i].classes)])
            /\ report.compliant_classes =
                  Sum([i \in 1..n |-> DocumentedCompliantCount(scan_results[i].classes)])

\* C6 as claimed (the report is determined by the record list alone): two
\* validate_project calls on the same record list return equal reports, whatever
\* happened to the files in between.
C6_ReportFromRecordsAlone ==
    (vpc = "done" /\ calls >= 2) => report = prev_report

\* C6 as amended: two validate_project calls on the same record list return reports
\* that agree in every metric and in their violations of every rule but D201 and
\* D202, in the same order; and the reports are equal when every record's source
\* was loaded with the same outcome in both calls.
C6_ReportFromRecordsAndSources ==
    (vpc = "done" /\ calls >= 2) =>
        /\ SourceFree(report) = SourceFree(prev_report)
        /\ SourcesOf(seen) = SourcesOf(prev_seen) => report = prev_report

\* the second of two calls has returned, the files were changed in between, the
\* reports differ and both hold violations of record-only rules
C6_Witness ==
    /\ vpc = "done"
    /\ calls >= 2
    /\ SourcesOf(seen) # SourcesOf(prev_seen)
    /\ report # prev_report
    /\ RecordOnly(report.violations) # <<>>

\* C7 (missing source degrades silently): whenever validate_file could load no
\* source for a record, the list it returned holds no D201 and no D202 violation,
\* and it is exactly the record-only part (every rule but D201 and D202, same
\* order) of the list returned for the same record by the previous call, whatever
\* source that call loaded; and the other way round.
C7_MissingSourceDegrades ==
    \A i \in 1..Len(seen) :
        /\ seen[i].source = None =>
               /\ RecordOnly(seen[i].result) = seen[i].result
               /\ i <= Len(prev_seen) =>
                      seen[i].result = RecordOnly(prev_seen[i].result)
        /\ (i <= Len(prev_seen) /\ prev_seen[i].source = None) =>
               prev_seen[i].result = RecordOnly(seen[i].result)

\* a record validated with its source and then without it: the first list holds a
\* D201 or D202 violation, the second is not empty
C7_Witness ==
    \E i \in 1..Len(seen) :
        /\ seen[i].source = None
        /\ i <= Len(prev_seen)
        /\ Truthy(prev_seen[i].source)
        /\ RecordOnly(prev_seen[i].result) # prev_seen[i].result
        /\ seen[i].result # <<>>

\* C8 (a public entity without a docstring yields exactly one violation): once
\* validate_project has returned, for every function, method and class that is
\* public by the documented rule and has has_docstring false, the violations about
\* it in the list returned for its record are exactly one, the missing-docstring
\* violation at its start_line.
C8_ExactlyOneViolation ==
    vpc = "done" =>
        \A i \in 1..Len(scan_results) : \A ent \in EntitiesOf(scan_results[i]) :
            (~Private(ent.name) /\ ~ent.has_docstring) =>
                LET vs == ViolationsOf(ent, seen[i].result)
                IN  /\ Len(vs) = 1
                    /\ vs[1].code = ent.code
                    /\ vs[1].line = ent.start_line

-----------------------------------------------------------------------------
(* core/reporter/coverage_reporter.py *)

\* dict.get(key, default)
Get(d, key, default) == IF key \in DOMAIN d THEN d[key] ELSE default

Unknown == <<"u", "n", "k", "n", "o", "w", "n">>

\* file_funcs + file_methods computed with len(functions) alone
FileTotal_functions_only(file_result) == Len(Get(file_result, "functions", <<>>))

\* file_total: len(functions) plus len(methods) over the classes
FileTotal(file_result) ==
    LET functions == Get(file_result, "functions", <<>>)
        classes == Get(file_result, "classes", <<>>)
        file_funcs == Len(functions)
        file_methods ==
            Sum([k \in 1..Len(classes) |-> Len(Get(classes[k], "methods", <<>>))])
    IN  file_funcs + file_methods

\* file_parsed: 0 when the record has parsing errors, file_total otherwise
FileParsed(file_result) ==
    IF Get(file_result, "parsing_errors", <<>>) # <<>> THEN 0
    ELSE FileTotal(file_result)

\* round(file_parsed / file_total * 100, 2), 0.0 when file_total is 0; in
\* hundredths of a percent
CoveragePercent(parsed, total) ==
    IF total > 0 THEN RoundPercent(parsed, total) ELSE 0

FileStat(file_result) ==
    [file_path |-> Get(file_result, "file_path", Unknown),
     total_functions |-> FileTotal(file_result),
     parsed_functions |-> FileParsed(file_result),
     parsing_errors |-> Len(Get(file_result, "parsing_errors", <<>>)),
     coverage_percentage |->
         CoveragePercent(FileParsed(file_result), FileTotal(file_result))]

\* the counters and the list are set up
compute_coverage_call ==
    /\ cpc = "idle"
    /\ cpc' = "files"
    /\ cov_idx' = 0
    /\ cov_total_functions' = 0
    /\ successfully_parsed_functions' = 0
    /\ total_parsing_errors' = 0
    /\ file_stats' = <<>>
    /\ UNCHANGED <<per_file_results, coverage_report>>

\* the iteration with successfully_parsed_functions += file_total
compute_coverage_file_adds_total ==
    /\ cpc = "files"
    /\ cov_idx < Len(per_file_results)
    /\ LET file_result == At(per_file_results, cov_idx)
           parsing_errors == Get(file_result, "parsing_errors", <<>>)
       IN  /\ total_parsing_errors' =
                  IF parsing_errors # <<>>
                  THEN total_parsing_errors + Len(parsing_errors)
                  ELSE total_parsing_errors
           /\ cov_total_functions' = cov_total_functions + FileTotal(file_result)
           /\ successfully_parsed_functions' =
                  successfully_parsed_functions + FileTotal(file_result)
           /\ file_stats' = Append(file_stats, FileStat(file_result))
    /\ cov_idx' = cov_idx + 1
    /\ UNCHANGED <<per_file_results, cpc, coverage_report>>

\* one iteration of "for file_result in per_file_results"
compute_coverage_file ==
    /\ cpc = "files"
    /\ cov_idx < Len(per_file_results)
    /\ LET file_result == At(per_file_results, cov_idx)
           parsing_errors == Get(file_result, "parsing_errors", <<>>)
       IN  /\ total_parsing_errors' =
                  IF parsing_errors # <<>>
                  THEN total_parsing_errors + Len(parsing_errors)
                  ELSE total_parsing_errors
           /\ cov_total_functions' = cov_total_functions + FileTotal(file_result)
           /\ successfully_parsed_functions' =
                  successfully_parsed_functions + FileParsed(file_result)
           /\ file_stats' = Append(file_stats, FileStat(file_result))
    /\ cov_idx' = cov_idx + 1
    /\ UNCHANGED <<per_file_results, cpc, coverage_report>>

\* the overall percentage and the return
compute_coverage_return ==
    /\ cpc = "files"
    /\ cov_idx = Len(per_file_results)
    /\ coverage_report' =
           [total_functions |-> cov_total_functions,
            successfully_parsed |-> successfully_parsed_functions,
            total_parsing_errors |-> total_parsing_errors,
            overall_coverage_percentage |->
                CoveragePercent(successfully_parsed_functions, cov_total_functions),
            files |-> file_stats]
    /\ cpc' = "done"
    /\ UNCHANGED <<per_file_results, cov_idx, cov_total_functions,
                   successfully_parsed_functions, total_parsing_errors, file_stats>>

-----------------------------------------------------------------------------
(* Inputs of the aggregator: any record list, also records that carry both
   parsing errors and functions *)

\* str(n) for a natural number
Digits == <<"0", "1", "2", "3", "4", "5", "6", "7", "8", "9">>
RECURSIVE IntToStr(_)
IntToStr(n) ==
    IF n < 10 THEN <<Digits[n + 1]>>
    ELSE IntToStr(n \div 10) \o <<Digits[(n % 10) + 1]>>

\* f"SyntaxError at line {e.lineno}: {e.msg}"
SyntaxErrorEntry(lineno, msg) ==
    <<"S", "y", "n", "t", "a", "x", "E", "r", "r", "o", "r", SP, "a", "t", SP,
      "l", "i", "n", "e", SP>> \o IntToStr(lineno) \o <<":", SP>> \o msg

\* f"Error: {str(e)}"
ErrorEntry(msg) == <<"E", "r", "r", "o", "r", ":", SP>> \o msg

MsgInvalid == <<"i", "n", "v", "a", "l", "i", "d">>
MsgDenied == <<"d", "e", "n", "i", "e", "d">>

PlainFunction(name, line) ==
    FunctionRecord(name, line, [has_docstring |-> FALSE, docstring |-> None])
PlainClass(name, line, methods) ==
    ClassRecord(name, line, [has_docstring |-> FALSE, docstring |-> None], methods)

\* records that lack keys
SparseFiles ==
    { [functions |-> <<PlainFunction(<<"f">>, 1)>>],
      [file_path |-> PathB, parsing_errors |-> <<ErrorEntry(MsgDenied)>>,
       classes |-> <<[name |-> <<"C">>]>>] }

CoverageFiles ==
    SparseFiles \cup
    { [file_path |-> p, imports |-> <<>>, parsing_errors |-> errs,
       functions |-> fs, classes |-> cs] :
        p \in Paths,
        errs \in { <<>>, <<SyntaxErrorEntry(12, MsgInvalid)>>,
                   <<ErrorEntry(MsgDenied), ErrorEntry(MsgInvalid)>> },
        fs \in { <<>>, <<PlainFunction(<<"f">>, 1), PlainFunction(<<"g">>, 4)>> },
        cs \in { <<>>,
                 <<PlainClass(<<"C">>, 7, <<PlainFunction(<<"f">>, 8)>>)>>,
                 <<PlainClass(<<"C">>, 7, <<>>),
                   PlainClass(<<"D">>, 11, <<PlainFunction(<<"f">>, 12),
                                             PlainFunction(<<"g">>, 15)>>)>> } }

InitCoverage ==
    /\ per_file_results \in UNION { [1..n -> CoverageFiles] : n \in 0..MaxFiles }
    /\ InitCoverageState
    /\ scan_results = <<>>
    /\ disk = [p \in Paths |-> Unreadable]
    /\ InitValidatorState
    /\ fs_dirs = <<>>
    /\ fs_files = <<>>
    /\ InitParserState
    /\ ex_tree = <<>>
    /\ InitExtractState

NextCoverage ==
    \/ compute_coverage_call /\ UNCHANGED <<vvars, pvars, xvars>>
    \/ compute_coverage_file /\ UNCHANGED <<vvars, pvars, xvars>>
    \/ compute_coverage_return /\ UNCHANGED <<vvars, pvars, xvars>>

SpecCoverage == InitCoverage /\ [][NextCoverage]_vars

-----------------------------------------------------------------------------
(* Properties of the aggregator *)

\* C9 (coverage round-trip): at every step the counters are the sums over the
\* per-file entries made so far, and the report compute_coverage returns has one
\* files entry per input record, in input order, whose total_functions sum to the
\* report's total_functions, whose parsed_functions sum to successfully_parsed and
\* whose parsing_errors sum to total_parsing_errors.
C9_CoverageRoundTrip ==
    /\ cov_total_functions =
           Sum([i \in 1..Len(file_stats) |-> file_stats[i].total_functions])
    /\ successfully_parsed_functions =
           Sum([i \in 1..Len(file_stats) |-> file_stats[i].parsed_functions])
    /\ total_parsing_errors =
           Sum([i \in 1..Len(file_stats) |-> file_stats[i].parsing_errors])
    /\ cpc = "done" =>
           LET files == coverage_report.files
           IN  /\ Len(files) = Len(per_file_results)
               /\ \A i \in 1..Len(files) :
                      files[i].file_path =
                          IF "file_path" \in DOMAIN per_file_results[i]
                          THEN per_file_results[i].file_path ELSE Unknown
               /\ coverage_report.total_functions =
                      Sum([i \in 1..Len(files) |-> files[i].total_functions])
               /\ coverage_report.successfully_parsed =
                      Sum([i \in 1..Len(files) |-> files[i].parsed_functions])
               /\ coverage_report.total_parsing_errors =
                      Sum([i \in 1..Len(files) |-> files[i].parsing_errors])

\* a report over two records of different files, one with parsing errors and
\* functions, so that successfully_parsed is below total_functions
C9_Witness ==
    /\ cpc = "done"
    /\ Len(coverage_report.files) >= 2
    /\ coverage_report.files[1].file_path # coverage_report.files[2].file_path
    /\ coverage_report.total_parsing_errors > 0
    /\ 0 < coverage_report.successfully_parsed
    /\ coverage_report.successfully_parsed < coverage_report.total_functions

\* the functions, classes and parsing errors of a record, none for a missing key
FunctionsOf(fd) == IF "functions" \in DOMAIN fd THEN fd.functions ELSE <<>>
ClassesOf(fd) == IF "classes" \in DOMAIN fd THEN fd.classes ELSE <<>>
ErrorsOf(fd) == IF "parsing_errors" \in DOMAIN fd THEN fd.parsing_errors ELSE <<>>

\* the (class, method) positions of a record
MethodSlots(fd) ==
    UNION { { <<k, j>> : j \in 1..(IF "methods" \in DOMAIN ClassesOf(fd)[k]
                                    THEN Len(ClassesOf(fd)[k].methods) ELSE 0) } :
            k \in 1..Len(ClassesOf(fd)) }

\* C10 (per-file coverage rule): in the returned report, each files entry has
\* total_functions = number of top-level functions + number of methods over all
\* classes of its record, parsed_functions = 0 if the record has a parsing error
\* and = total_functions otherwise, and parsing_errors = the number of error
\* entries; so parsed_functions <= total_functions, successfully_parsed <=
\* total_functions, and total_parsing_errors is the number of error entries of
\* all records.
C10_PerFileRule ==
    cpc = "done" =>
        LET files == coverage_report.files
            n == Len(per_file_results)
        IN  /\ Len(files) = n
            /\ \A i \in 1..n :
                   LET fd == per_file_results[i]
                   IN  /\ files[i].total_functions =
                              Len(FunctionsOf(fd)) + Cardinality(MethodSlots(fd))
                       /\ files[i].parsed_functions =
                              IF Len(ErrorsOf(fd)) > 0 THEN 0
                              ELSE files[i].total_functions
                       /\ files[i].parsed_functions <= files[i].total_functions
                       /\ files[i].parsing_errors = Len(ErrorsOf(fd))
            /\ coverage_report.successfully_parsed <= coverage_report.total_functions
            /\ coverage_report.total_parsing_errors =
                   Sum([i \in 1..n |-> Len(ErrorsOf(per_file_results[i]))])

\* a report with a record that has errors and functions (parsed 0 of its total)
\* after a record without errors that has methods
C10_Witness ==
    /\ cpc = "done"
    /\ \E i, j \in 1..Len(per_file_results) :
           /\ ErrorsOf(per_file_results[i]) # <<>>
           /\ coverage_report.files[i].total_functions > 0
           /\ coverage_report.files[i].parsed_functions = 0
           /\ ErrorsOf(per_file_results[j]) = <<>>
           /\ Cardinality(MethodSlots(per_file_results[j])) > 0
           /\ coverage_report.files[j].parsed_functions
                  > Len(FunctionsOf(per_file_results[j]))

-----------------------------------------------------------------------------
(* core/parser/python_parser.py: the syntax trees ast.parse returns *)

\* a node of the tree; body holds its statements (def, class) or, for any other
\* node, its child nodes in field order
AstNode(type, name, lineno, body, module, names) ==
    [type |-> type, name |-> name, lineno |-> lineno, end_lineno |-> lineno + 2,
     body |-> body, module |-> module, names |-> names]

\* a statement or an expression the extractor tells by its type alone
Node(type, body) == AstNode(type, <<>>, 0, body, None, <<>>)

\* ast.Constant: kind is the Python type of its value
Constant(kind, value) == Node("Constant", <<>>) @@ [kind |-> kind, value |-> value]
\* ast.Expr: an expression statement
Expr(value) == Node("Expr", <<value>>)
\* ast.Name, the id in name; ast.Attribute, the attr in name
Name(id) == AstNode("Name", id, 0, <<>>, None, <<>>)
Attribute(value, attr) == AstNode("Attribute", attr, 0, <<value>>, None, <<>>)
\* ast.Call: func, then the arguments
Call(func, args) == Node("Call", <<func>> \o args)
\* ast.Raise: excs is empty, the exc, or the exc and the cause
Raise(excs) == Node("Raise", excs)
\* ast.BoolOp: op is "And" or "Or"
BoolOp(op, values) == Node("BoolOp", values) @@ [op |-> op]

\* ast.arguments: the names of the parameters of each kind, the default
\* expressions of the positional ones and those of the keyword-only ones
Arguments(posonlyargs, args, kwonlyargs, defaults, kw_defaults) ==
    [posonlyargs |-> posonlyargs, args |-> args, kwonlyargs |-> kwonlyargs,
     defaults |-> defaults, kw_defaults |-> kw_defaults]
NoArguments == Arguments(<<>>, <<>>, <<>>, <<>>, <<>>)

\* a body that starts with the string constant doc, when doc is not None
WithDoc(doc, body) ==
    IF doc # None THEN <<Expr(Constant("str", doc))>> \o body ELSE body

FunctionDefWith(name, lineno, args, body) ==
    AstNode("FunctionDef", name, lineno, body, None, <<>>) @@ [args |-> args]
\* doc is the value of the string constant the body starts with, None without one;
\* body holds the statements after it
FunctionDef(name, lineno, doc, body) ==
    FunctionDefWith(name, lineno, NoArguments, WithDoc(doc, body))
ClassDef(name, lineno, doc, body) ==
    AstNode("ClassDef", name, lineno, WithDoc(doc, body), None, <<>>)
Import(lineno, names) ==
    AstNode("Import", <<>>, lineno, <<>>, None, names)
ImportFrom(lineno, module, names) ==
    AstNode("ImportFrom", <<>>, lineno, <<>>, module, names)
Alias(name, asname) == [name |-> name, asname |-> asname]

\* ast.iter_child_nodes: of a def, the default expressions and the statements
iter_child_nodes(node) ==
    IF node.type = "FunctionDef"
    THEN node.args.kw_defaults \o node.args.defaults \o node.body
    ELSE node.body

\* ast.walk below a list of nodes: breadth first, level by level
RECURSIVE Walk(_)
Walk(nodes) ==
    IF nodes = <<>> THEN <<>>
    ELSE nodes \o Walk(Concat([i \in 1..Len(nodes) |-> iter_child_nodes(nodes[i])]))

\* _simple_complexity with the boolean operators counted once each
_simple_complexity_flat(node) ==
    LET walk == Walk(<<node>>)
        Step(child) ==
            IF child.type \in {"If", "For", "While", "ExceptHandler", "With"} THEN 1
            ELSE IF child.type = "BoolOp" /\ child.op \in {"And", "Or"} THEN 1
            ELSE 0
    IN  1 + Sum([k \in 1..Len(walk) |-> Step(walk[k])])

\* 1, plus 1 for each if, for, while, except and with node of ast.walk(node),
\* plus len(values) - 1 for each and/or node
_simple_complexity(node) ==
    LET walk == Walk(<<node>>)
        Step(child) ==
            IF child.type \in {"If", "For", "While", "ExceptHandler", "With"} THEN 1
            ELSE IF child.type = "BoolOp" /\ child.op \in {"And", "Or"}
                 THEN Len(child.body) - 1
            ELSE 0
    IN  1 + Sum([k \in 1..Len(walk) |-> Step(walk[k])])

\* max(ns), for a set of numbers that is not empty
Max(ns) == CHOOSE m \in ns : \A n \in ns : n <= m

\* depth(n, current) of _max_nesting_depth
RECURSIVE depth(_, _)
depth(n, current) ==
    LET children == iter_child_nodes(n)
        below == IF n.type \in {"If", "For", "While", "With", "Try"}
                 THEN current + 1 ELSE current
    IN  Max({current} \cup { depth(children[k], below) : k \in 1..Len(children) })

\* _max_nesting_depth that counts the statements on the way, branching or not
_max_nesting_depth_any(node) == depth(node, 0) + (IF node.body # <<>> THEN 1 ELSE 0)

_max_nesting_depth(node) == depth(node, 0)

\* the characters of identifiers, by code point
CodePoints ==
    <<"A", "B", "C", "D", "E", "F", "G", "H", "I", "J", "K", "L", "M", "N", "O",
      "P", "Q", "R", "S", "T", "U", "V", "W", "X", "Y", "Z", "_", "a", "b", "c",
      "d", "e", "f", "g", "h", "i", "j", "k", "l", "m", "n", "o", "p", "q", "r",
      "s", "t", "u", "v", "w", "x", "y", "z">>
ord(c) == CHOOSE i \in 1..Len(CodePoints) : CodePoints[i] = c

\* a < b for two str
RECURSIVE StrLess(_, _)
StrLess(a, b) ==
    IF b = <<>> THEN FALSE
    ELSE IF a = <<>> THEN TRUE
    ELSE IF Head(a) = Head(b) THEN StrLess(Tail(a), Tail(b))
    ELSE ord(Head(a)) < ord(Head(b))

\* sorted(list(s)) for a set of str
RECURSIVE sorted(_)
sorted(s) ==
    IF s = {} THEN <<>>
    ELSE LET least == CHOOSE a \in s : \A b \in s \ {a} : StrLess(a, b)
         IN  <<least>> \o sorted(s \ {least})

\* the names _extract_raises adds for one node of the walk
RaisedNames(child) ==
    IF child.type = "Raise" /\ child.body # <<>>
    THEN LET exc == child.body[1]
         IN  IF exc.type = "Call"
             THEN IF exc.body[1].type \in {"Name", "Attribute"}
                  THEN {exc.body[1].name} ELSE {}
             ELSE IF exc.type = "Name" THEN {exc.name}
             ELSE {}
    ELSE {}

\* _extract_raises that returns the names in the order of the walk, repeats kept
_extract_raises_unsorted(node) ==
    LET walk == Walk(<<node>>)
        names == SelectSeq(walk, LAMBDA child : RaisedNames(child) # {})
    IN  [k \in 1..Len(names) |-> CHOOSE a \in RaisedNames(names[k]) : TRUE]

_extract_raises(node) ==
    LET walk == Walk(<<node>>)
    IN  sorted(UNION { RaisedNames(walk[k]) : k \in 1..Len(walk) })

\* len(line) - len(line.lstrip())
Indent(line) == Len(line) - Len(LStripChars(line, Whitespace))

\* while lines and not lines[-1]: lines.pop()
RECURSIVE DropTrailingEmpty(_)
DropTrailingEmpty(lines) ==
    IF lines # <<>> /\ lines[Len(lines)] = <<>>
    THEN DropTrailingEmpty(SubSeq(lines, 1, Len(lines) - 1))
    ELSE lines

\* while lines and not lines[0]: lines.pop(0)
RECURSIVE DropLeadingEmpty(_)
DropLeadingEmpty(lines) ==
    IF lines # <<>> /\ lines[1] = <<>> THEN DropLeadingEmpty(Tail(lines)) ELSE lines

\* inspect.cleandoc on text without tabs: the first line loses its leading blanks,
\* the others the indentation common to those that are not blank; empty lines at
\* both ends are dropped
cleandoc(doc) ==
    LET lines == Split(doc, NL)
        inked == { i \in 2..Len(lines) : LStripChars(lines[i], Whitespace) # <<>> }
        margin == CHOOSE m \in { Indent(lines[i]) : i \in inked } :
                      \A i \in inked : m <= Indent(lines[i])
        cut == [i \in 1..Len(lines) |->
                   IF i = 1 THEN LStripChars(lines[1], Whitespace)
                   ELSE IF inked # {} THEN SubSeq(lines[i], margin + 1, Len(lines[i]))
                   ELSE lines[i]]
    IN  JoinLines(DropLeadingEmpty(DropTrailingEmpty(cut)))

\* _has_docstring that looks for a string constant at any place of the body
_has_docstring_anywhere(node) ==
    \E k \in 1..Len(node.body) :
        /\ node.body[k].type = "Expr"
        /\ node.body[k].body[1].type = "Constant"
        /\ node.body[k].body[1].kind = "str"

\* the body starts with an expression statement that is a str constant
_has_docstring(node) ==
    /\ Len(node.body) > 0
    /\ node.body[1].type = "Expr"
    /\ node.body[1].body[1].type = "Constant"
    /\ node.body[1].body[1].kind = "str"

\* _get_docstring that puts the quotes right around the cleaned text
_get_docstring_unwrapped(node) ==
    IF /\ Len(node.body) > 0
       /\ node.body[1].type = "Expr"
       /\ node.body[1].body[1].type = "Constant"
       /\ node.body[1].body[1].kind = "str"
    THEN DQ3 \o cleandoc(node.body[1].body[1].value) \o DQ3
    ELSE None

\* the cleaned text on a line of its own between triple double quotes
_get_docstring(node) ==
    IF /\ Len(node.body) > 0
       /\ node.body[1].type = "Expr"
       /\ node.body[1].body[1].type = "Constant"
       /\ node.body[1].body[1].kind = "str"
    THEN DQ3 \o <<NL>> \o cleandoc(node.body[1].body[1].value) \o <<NL>> \o DQ3
    ELSE None

\* arg_index of the defaults counted from the first parameter
DefaultsOf_from_start(item) ==
    [i \in 1..Len(item.args.defaults) |-> [arg_index |-> i - 1]]

\* defaults of func_info: the i-th default (from 0) gets num_args - num_defaults + i
DefaultsOf(item) ==
    LET num_defaults == Len(item.args.defaults)
        num_args == Len(item.args.args)
    IN  [i \in 1..num_defaults |-> [arg_index |-> num_args - num_defaults + (i - 1)]]

\* args of func_info and method_info
ArgsOf(item) == [k \in 1..Len(item.args.args) |-> [name |-> item.args.args[k]]]

\* func_info, without the stringified annotations and default values
FuncInfo(item) ==
    [name |-> item.name, args |-> ArgsOf(item), defaults |-> DefaultsOf(item),
     start_line |-> item.lineno, end_line |-> item.end_lineno,
     complexity |-> _simple_complexity(item),
     nesting_depth |-> _max_nesting_depth(item),
     has_docstring |-> _has_docstring(item), docstring |-> _get_docstring(item),
     raises |-> _extract_raises(item)]

\* method_info, without the stringified annotations
MethodInfo(method) ==
    [name |-> method.name, args |-> ArgsOf(method),
     start_line |-> method.lineno, end_line |-> method.end_lineno,
     complexity |-> _simple_complexity(method),
     has_docstring |-> _has_docstring(method), docstring |-> _get_docstring(method),
     raises |-> _extract_raises(method)]

\* the top-level defs of the module
parse_functions(tree) ==
    LET defs == SelectSeq(tree, LAMBDA item : item.type = "FunctionDef")
    IN  [k \in 1..Len(defs) |-> FuncInfo(defs[k])]

\* the top-level classes, each with the defs of its body
parse_classes(tree) ==
    LET cls == SelectSeq(tree, LAMBDA item : item.type = "ClassDef")
        MethodsOf(item) ==
            LET defs == SelectSeq(item.body, LAMBDA method : method.type = "FunctionDef")
            IN  [k \in 1..Len(defs) |-> MethodInfo(defs[k])]
    IN  [k \in 1..Len(cls) |->
            [name |-> cls[k].name, methods |-> MethodsOf(cls[k]),
             start_line |-> cls[k].lineno, end_line |-> cls[k].end_lineno,
             has_docstring |-> _has_docstring(cls[k]),
             docstring |-> _get_docstring(cls[k])]]

KwImport == <<"i", "m", "p", "o", "r", "t", SP>>
KwFrom == <<"f", "r", "o", "m", SP>>
KwAs == <<SP, "a", "s", SP>>

\* "import x", "import x as y", "from m import x", "from m import x as y"
ImportStrings(item) ==
    LET module == IF Truthy(item.module) THEN item.module ELSE <<>>
        before == IF item.type = "Import" THEN KwImport
                  ELSE KwFrom \o module \o <<SP>> \o KwImport
        OfName(a) == IF Truthy(a.asname) THEN before \o a.name \o KwAs \o a.asname
                     ELSE before \o a.name
    IN  [k \in 1..Len(item.names) |-> OfName(item.names[k])]

\* the import statements of the whole tree, in ast.walk order
parse_imports(tree) ==
    LET stmts == SelectSeq(Walk(tree),
                           LAMBDA item : item.type \in {"Import", "ImportFrom"})
    IN  Concat([k \in 1..Len(stmts) |-> ImportStrings(stmts[k])])

\* a file: the exception open/read or ast.parse raises on it ("none" when neither
\* does), with its lineno and message, and the tree ast.parse returns
SourceFile(error, lineno, msg, tree) ==
    [error |-> error, lineno |-> lineno, msg |-> msg, tree |-> tree]

\* the statement of parse_file's try block that raises; fault is the extraction
\* step the interpreter fails in (MemoryError, RecursionError), "return" for none
RaisedIn(file, fault) ==
    IF file.error = "OSError" THEN "open"
    ELSE IF file.error \in {"SyntaxError", "ValueError"} THEN "ast.parse"
    ELSE fault

\* str(e) of the exception an extraction step dies of: MemoryError()
FaultMsg == <<>>

\* parse_file: each of functions, classes, imports is assigned when its own
\* extraction returned, whatever happens after it
parse_file(path, file, fault) ==
    LET raised == RaisedIn(file, fault)
        functions ==
            IF raised \in {"parse_classes", "parse_imports", "return"}
            THEN parse_functions(file.tree) ELSE <<>>
        classes ==
            IF raised \in {"parse_imports", "return"}
            THEN parse_classes(file.tree) ELSE <<>>
        imports == IF raised = "return" THEN parse_imports(file.tree) ELSE <<>>
        parsing_errors ==
            IF raised = "return" THEN <<>>
            ELSE IF file.error = "SyntaxError"
                 THEN <<SyntaxErrorEntry(file.lineno, file.msg)>>
            ELSE IF raised \in {"open", "ast.parse"} THEN <<ErrorEntry(file.msg)>>
            ELSE <<ErrorEntry(FaultMsg)>>
    IN  [file_path |-> path, imports |-> imports, parsing_errors |-> parsing_errors,
         functions |-> functions, classes |-> classes]

\* os.path.join(root, name)
Join(root, name) ==
    IF EndsWith(root, <<"/">>) THEN root \o name ELSE root \o <<"/">> \o name

DotPy == <<".", "p", "y">>

-----------------------------------------------------------------------------
(* Inputs of the parser: directory trees, file contents, arguments *)

Root == <<"p">>
DirS == <<"s">>
DirV == <<"v">>
DirDotPy == <<"d", ".", "p", "y">>
NameC == <<"c", ".", "p", "y">>
NameTxt == <<"n", ".", "t", "x", "t">>
NamePy == <<"p", "y">>

\* what os.walk yields for a directory: the names of its directories and files
Listing(dirs, files) == [dirs |-> dirs, files |-> files]

\* p/{a.py, n.txt, s/b.py, v/c.py}
TreeFlat ==
    (Root :> Listing(<<DirS, DirV>>, <<PathA, NameTxt>>))
    @@ (Join(Root, DirS) :> Listing(<<>>, <<PathB>>))
    @@ (Join(Root, DirV) :> Listing(<<>>, <<NameC>>))

\* p/{py, a.py, d.py/{b.py, s/c.py}}: a directory whose name ends with .py
TreeDeep ==
    (Root :> Listing(<<DirDotPy>>, <<NamePy, PathA>>))
    @@ (Join(Root, DirDotPy) :> Listing(<<DirS>>, <<PathB>>))
    @@ (Join(Join(Root, DirDotPy), DirS) :> Listing(<<>>, <<NameC>>))

Trees == {TreeFlat, TreeDeep}

FilesOf(tree) ==
    UNION { { Join(d, tree[d].files[k]) : k \in 1..Len(tree[d].files) } :
            d \in DOMAIN tree }

MsgNull == <<"n", "u", "l", "l">>

\* import o / def f with a from-import in its body / class C with a method m
ModuleRich ==
    << Import(1, <<Alias(<<"o">>, None)>>),
       FunctionDef(<<"f">>, 2, None,
           <<ImportFrom(3, None, <<Alias(<<"x">>, <<"y">>)>>)>>),
       ClassDef(<<"C">>, 6, <<"A", ".">>,
           <<FunctionDef(<<"m">>, 7, <<SP, "A", ".", NL, SP, SP, SP, "b", NL, SP, SP>>,
                         <<>>)>>) >>

\* what a file that ends with .py can hold
Contents ==
    { SourceFile("OSError", 0, MsgDenied, <<>>),
      SourceFile("SyntaxError", 12, MsgInvalid, <<>>),
      SourceFile("ValueError", 0, MsgNull, <<>>),
      SourceFile("none", 0, <<>>, <<>>),
      SourceFile("none", 0, <<>>, ModuleRich) }

\* a file of text that is no Python
TextFile == SourceFile("SyntaxError", 1, MsgInvalid, <<>>)

PathArgs == { Root, Join(Root, DirV), Join(Root, PathA), Join(Root, NameTxt), <<"q">> }

\* the skip_dirs argument: <<l>> for the list l, NoList for None
NoList == <<>>
SkipArgs == { NoList, << <<DirV>> >>, << <<DirS, DirV>> >> }

-----------------------------------------------------------------------------
(* parse_path over a directory tree *)

\* the extraction steps of parse_file the interpreter can fail in, and "return"
Faults == {"parse_functions", "parse_classes", "parse_imports", "return"}

isfile(path) == path \in DOMAIN fs_files
isdir(path) == path \in DOMAIN fs_dirs

\* dirs left as os.walk made it
Pruned_nothing(dirs, skip) == dirs

\* dirs[:] = [d for d in dirs if d not in skip_dirs]
Pruned(dirs, skip) == SelectSeq(dirs, LAMBDA d : ~Contains(skip, d))

\* the call up to the first directory: skip_dirs defaults to [], a path that is a
\* file is parsed when it ends with .py and nothing else is, any other path is
\* handed to os.walk, which yields nothing for a path that is no directory
parse_path_call ==
    /\ ppc = "idle"
    /\ \E path \in PathArgs, rec \in BOOLEAN, skip \in SkipArgs, fault \in Faults :
          /\ path_arg' = path
          /\ recursive' = rec
          /\ skip_dirs' = IF skip = NoList THEN <<>> ELSE skip[1]
          /\ IF isfile(path)
             THEN /\ ppc' = "return"
                  /\ walk_stack' = <<>>
                  /\ IF EndsWith(path, DotPy)
                     THEN /\ path_results' = <<parse_file(path, fs_files[path], fault)>>
                          /\ discovered' = <<path>>
                          /\ runs' = <<RaisedIn(fs_files[path], fault)>>
                     ELSE /\ fault = "return"
                          /\ path_results' = <<>>
                          /\ discovered' = <<>>
                          /\ runs' = <<>>
             ELSE /\ fault = "return"
                  /\ ppc' = "walk"
                  /\ walk_stack' = IF isdir(path) THEN <<path>> ELSE <<>>
                  /\ path_results' = <<>>
                  /\ discovered' = <<>>
                  /\ runs' = <<>>
    /\ UNCHANGED <<fs_dirs, fs_files, walk_root, walk_dirs, walk_files, returned>>

\* os.walk yields the next directory, top down; its dirs are pruned in place
walk_yield ==
    /\ ppc = "walk"
    /\ walk_stack # <<>>
    /\ LET root == Head(walk_stack)
       IN  /\ walk_root' = root
           /\ walk_dirs' = Pruned(fs_dirs[root].dirs, skip_dirs)
           /\ walk_files' = fs_dirs[root].files
    /\ walk_stack' = Tail(walk_stack)
    /\ ppc' = "files"
    /\ UNCHANGED <<fs_dirs, fs_files, path_arg, recursive, skip_dirs, path_results,
                   discovered, runs, returned>>

\* the iteration of "for file in files" in which an exception of parse_file
\* leaves parse_path
parse_path_file_raises ==
    /\ ppc = "files"
    /\ walk_files # <<>>
    /\ LET file == Head(walk_files)
           file_path == Join(walk_root, file)
       IN  IF EndsWith(file, DotPy)
           THEN \E fault \in Faults :
                   /\ discovered' = Append(discovered, file_path)
                   /\ runs' = Append(runs, RaisedIn(fs_files[file_path], fault))
                   /\ IF RaisedIn(fs_files[file_path], fault) = "return"
                      THEN /\ path_results' = Append(path_results,
                                  parse_file(file_path, fs_files[file_path], fault))
                           /\ ppc' = ppc
                      ELSE /\ path_results' = path_results
                           /\ ppc' = "raised"
           ELSE UNCHANGED <<path_results, discovered, runs, ppc>>
    /\ walk_files' = Tail(walk_files)
    /\ UNCHANGED <<fs_dirs, fs_files, path_arg, recursive, skip_dirs, walk_stack,
                   walk_root, walk_dirs, returned>>

\* one iteration of "for file in files": a file that ends with .py is parsed and
\* its record appended
parse_path_file ==
    /\ ppc = "files"
    /\ walk_files # <<>>
    /\ LET file == Head(walk_files)
           file_path == Join(walk_root, file)
       IN  IF EndsWith(file, DotPy)
           THEN \E fault \in Faults :
                   /\ discovered' = Append(discovered, file_path)
                   /\ runs' = Append(runs, RaisedIn(fs_files[file_path], fault))
                   /\ path_results' = Append(path_results,
                          parse_file(file_path, fs_files[file_path], fault))
                   /\ ppc' = ppc
           ELSE UNCHANGED <<path_results, discovered, runs, ppc>>
    /\ walk_files' = Tail(walk_files)
    /\ UNCHANGED <<fs_dirs, fs_files, path_arg, recursive, skip_dirs, walk_stack,
                   walk_root, walk_dirs, returned>>

\* walk_descend without "if not recursive: break"
walk_descend_always ==
    /\ ppc = "files"
    /\ walk_files = <<>>
    /\ walk_stack' =
           [k \in 1..Len(walk_dirs) |-> Join(walk_root, walk_dirs[k])] \o walk_stack
    /\ ppc' = "walk"
    /\ UNCHANGED <<fs_dirs, fs_files, path_arg, recursive, skip_dirs, path_results,
                   walk_root, walk_dirs, walk_files, discovered, runs, returned>>

\* the files of the directory are done: break when not recursive, else os.walk
\* goes down into the directories left in dirs, in order, before the others
walk_descend ==
    /\ ppc = "files"
    /\ walk_files = <<>>
    /\ walk_stack' =
           IF ~recursive THEN <<>>
           ELSE [k \in 1..Len(walk_dirs) |-> Join(walk_root, walk_dirs[k])]
                \o walk_stack
    /\ ppc' = "walk"
    /\ UNCHANGED <<fs_dirs, fs_files, path_arg, recursive, skip_dirs, path_results,
                   walk_root, walk_dirs, walk_files, discovered, runs, returned>>

\* a call of parse_path as its caller sees it: the arguments and the file paths
\* of the records returned
Scan(path, rec, skip, files) ==
    [path |-> path, recursive |-> rec, skip |-> skip, files |-> files]

\* return results
parse_path_return ==
    /\ \/ ppc = "return"
       \/ ppc = "walk" /\ walk_stack = <<>>
    /\ ppc' = "done"
    /\ returned' = returned \cup
           {Scan(path_arg, recursive, skip_dirs,
                 { path_results[i].file_path : i \in 1..Len(path_results) })}
    /\ UNCHANGED <<fs_dirs, fs_files, path_arg, recursive, skip_dirs, path_results,
                   walk_stack, walk_root, walk_dirs, walk_files, discovered, runs>>

InitParse ==
    /\ fs_dirs \in Trees
    /\ fs_files \in { f \in [FilesOf(fs_dirs) -> Contents \cup {TextFile}] :
                        \A p \in DOMAIN f :
                            IF EndsWith(p, DotPy) THEN f[p] \in Contents
                            ELSE f[p] = TextFile }
    /\ InitParserState
    /\ ex_tree = <<>>
    /\ InitExtractState
    /\ scan_results = <<>>
    /\ disk = [p \in Paths |-> Unreadable]
    /\ InitValidatorState
    /\ per_file_results = <<>>
    /\ InitCoverageState

NextParse ==
    \/ parse_path_call /\ UNCHANGED <<vvars, cvars, xvars>>
    \/ walk_yield /\ UNCHANGED <<vvars, cvars, xvars>>
    \/ parse_path_file /\ UNCHANGED <<vvars, cvars, xvars>>
    \/ walk_descend /\ UNCHANGED <<vvars, cvars, xvars>>
    \/ parse_path_return /\ UNCHANGED <<vvars, cvars, xvars>>

SpecParse == InitParse /\ [][NextParse]_vars

\* parse_path runs on: no statement of it waits for anything
SpecParseLive == SpecParse /\ WF_vars(NextParse)

-----------------------------------------------------------------------------
(* Properties of the parser *)

\* int(s) for a str of digits
RECURSIVE StrToInt(_)
StrToInt(s) ==
    IF s = <<>> THEN 0
    ELSE 10 * StrToInt(SubSeq(s, 1, Len(s) - 1))
         + (CHOOSE d \in 0..9 : Digits[d + 1] = s[Len(s)])

TextSyntaxErrorAt ==
    <<"S", "y", "n", "t", "a", "x", "E", "r", "r", "o", "r", SP, "a", "t", SP,
      "l", "i", "n", "e", SP>>
TextError == <<"E", "r", "r", "o", "r", ":", SP>>

\* entry reads "SyntaxError at line <n>: <msg>"
IsSyntaxErrorEntry(entry, n, msg) ==
    /\ StartsWith(entry, TextSyntaxErrorAt)
    /\ LET rest == SubSeq(entry, Len(TextSyntaxErrorAt) + 1, Len(entry))
           colon == FirstIndex(rest, ":")
       IN  /\ colon > 1
           /\ \A k \in 1..(colon - 1) : rest[k] \in Range(Digits)
           /\ StrToInt(SubSeq(rest, 1, colon - 1)) = n
           /\ SubSeq(rest, colon, Len(rest)) = <<":", SP>> \o msg

\* entry reads "Error: <msg>"
IsErrorEntry(entry, msg) ==
    /\ StartsWith(entry, TextError)
    /\ SubSeq(entry, Len(TextError) + 1, Len(entry)) = msg

\* C3 (parse-failure containment in parse_file): for every record parse_file
\* returned, if a step of the run failed (reading, parsing, or extracting functions,
\* classes or imports) the record has exactly one parsing_errors entry, "SyntaxError
\* at line <n>: <msg>" for a syntax error and "Error: <msg>" for any other exception,
\* and its functions, classes and imports are empty; a record with parsing_errors
\* carries no functions and no classes; a record of a run without failure has no
\* parsing_errors.
C3_ParseFailureContained ==
    \A i \in 1..Len(path_results) :
        LET r == path_results[i]
            file == fs_files[r.file_path]
        IN  /\ runs[i] # "return" =>
                   /\ Len(r.parsing_errors) = 1
                   /\ IF file.error = "SyntaxError"
                      THEN IsSyntaxErrorEntry(r.parsing_errors[1], file.lineno, file.msg)
                      ELSE IsErrorEntry(r.parsing_errors[1],
                               IF runs[i] \in {"open", "ast.parse"} THEN file.msg
                               ELSE FaultMsg)
                   /\ r.functions = <<>>
                   /\ r.classes = <<>>
                   /\ r.imports = <<>>
            /\ r.parsing_errors # <<>> => (r.functions = <<>> /\ r.classes = <<>>)
            /\ runs[i] = "return" => r.parsing_errors = <<>>

ResultPaths == [i \in 1..Len(path_results) |-> path_results[i].file_path]

\* the files below dir that end with .py, in the directories the arguments admit
RECURSIVE SourceFilesUnder(_)
SourceFilesUnder(dir) ==
    { Join(dir, f) : f \in { g \in Range(fs_dirs[dir].files) : EndsWith(g, DotPy) } }
    \cup (IF recursive
          THEN UNION { SourceFilesUnder(Join(dir, d)) :
                       d \in Range(fs_dirs[dir].dirs) \ Range(skip_dirs) }
          ELSE {})

\* the source files of the path the call was made with
SourceFiles ==
    IF isfile(path_arg) THEN (IF EndsWith(path_arg, DotPy) THEN {path_arg} ELSE {})
    ELSE IF isdir(path_arg) THEN SourceFilesUnder(path_arg)
    ELSE {}

\* the records so far are those of the files come across so far, one each, in
\* that order; at the return they are those of all source files
C4_OneRecordPerFile ==
    /\ ppc \in {"idle", "walk", "files", "return", "done"}
    /\ ResultPaths = discovered
    /\ \A i, j \in 1..Len(path_results) : i # j => ResultPaths[i] # ResultPaths[j]
    /\ Range(discovered) \subseteq SourceFiles
    /\ ppc = "done" => Range(ResultPaths) = SourceFiles

\* a step appends to results or leaves it alone
C4_RecordsKept ==
    /\ Len(path_results') >= Len(path_results)
    /\ SubSeq(path_results', 1, Len(path_results)) = path_results

\* C4 (the walk is never aborted by one file): parse_path terminates, and what it
\* returns holds exactly one record for every source file it discovered, each file
\* once, files whose reading or parsing failed included; no step removes or changes
\* a record made before, and a failure in one file does not keep the files after it
\* from getting their records.
C4_WalkNeverAborted ==
    /\ []C4_OneRecordPerFile
    /\ [][C4_RecordsKept]_vars
    /\ <>(ppc = "done")

\* three files returned, the second failed, the first and the third did not
C4_Witness ==
    /\ ppc = "done"
    /\ Len(path_results) = 3
    /\ runs[2] # "return"
    /\ path_results[2].parsing_errors # <<>>
    /\ path_results[1].parsing_errors = <<>>
    /\ path_results[1].classes # <<>>
    /\ path_results[3].parsing_errors = <<>>
    /\ path_results[3].functions # <<>>

-----------------------------------------------------------------------------
(* Further properties of the validator *)

\* C11 (report consistency of validate_project): in every report, total_items =
\* total_functions + total_classes, compliant_items = compliant_functions +
\* compliant_classes, compliant_items <= total_items, total_violations = the
\* length of violations, compliance_percentage (in hundredths) lies in 0..10000
\* and is 0 whenever total_items = 0; for the empty record list total_violations
\* = 0 and total_items = 0.
C11_ReportConsistency ==
    vpc = "done" =>
        /\ report.total_items = report.total_functions + report.total_classes
        /\ report.compliant_items =
               report.compliant_functions + report.compliant_classes
        /\ report.compliant_functions <= report.total_functions
        /\ report.compliant_classes <= report.total_classes
        /\ report.compliant_items <= report.total_items
        /\ report.total_violations = Len(report.violations)
        /\ report.compliance_percentage \in 0..10000
        /\ report.total_items = 0 => report.compliance_percentage = 0
        /\ report.compliant_items = report.total_items /\ report.total_items > 0
               => report.compliance_percentage = 10000
        /\ scan_results = <<>> =>
               /\ report.total_violations = 0
               /\ report.total_items = 0
               /\ report.violations = <<>>

\* a report over two records with violations, some but not all items compliant,
\* and a private item that has a docstring
C11_Witness ==
    /\ vpc = "done"
    /\ Len(scan_results) = 2
    /\ report.total_violations > 0
    /\ 0 < report.compliant_items
    /\ report.compliant_items < report.total_items
    /\ 0 < report.compliance_percentage
    /\ report.compliance_percentage < 10000
    /\ \E i \in 1..2 : \E ent \in EntitiesOf(scan_results[i]) :
           StartsWith(ent.name, <<"_">>) /\ ent.has_docstring

-----------------------------------------------------------------------------
(* The extraction of one module: parse_functions, then parse_classes *)

\* functions = parse_functions(tree)
extract_functions ==
    /\ xpc = "idle"
    /\ ex_functions' = parse_functions(ex_tree)
    /\ xpc' = "functions"
    /\ UNCHANGED <<ex_tree, ex_classes>>

\* classes = parse_classes(tree)
extract_classes ==
    /\ xpc = "functions"
    /\ ex_classes' = parse_classes(ex_tree)
    /\ xpc' = "done"
    /\ UNCHANGED <<ex_tree, ex_functions>>

-----------------------------------------------------------------------------
(* Inputs of the extraction: defs with any parameter list, body and docstring *)

NameX == Name(<<"x">>)
One == Constant("int", <<"1">>)
Pass == Node("Pass", <<>>)

\* x or y
XorY == BoolOp("Or", <<NameX, Name(<<"y">>)>>)

ParameterLists ==
    { NoArguments,
      \* (a, b=1)
      Arguments(<<>>, <<<<"a">>, <<"b">>>>, <<>>, <<One>>, <<>>),
      \* (a=1, b=x or y)
      Arguments(<<>>, <<<<"a">>, <<"b">>>>, <<>>, <<One, XorY>>, <<>>),
      \* (a=1, /, b=1)
      Arguments(<<<<"a">>>>, <<<<"b">>>>, <<>>, <<One, One>>, <<>>),
      \* (a, /, b, c=1)
      Arguments(<<<<"a">>>>, <<<<"b">>, <<"c">>>>, <<>>, <<One>>, <<>>),
      \* (a=1, b=1, /)
      Arguments(<<<<"a">>, <<"b">>>>, <<>>, <<>>, <<One, One>>, <<>>),
      \* (a, b=1, *, c=1, d)
      Arguments(<<>>, <<<<"a">>, <<"b">>>>, <<<<"c">>, <<"d">>>>, <<One>>, <<One>>) }

RaiseCall(id) == Raise(<<Call(Name(id), <<>>)>>)
Foo == <<"F", "o", "o">>
Bar == <<"B", "a", "r">>
LowerExc == <<"e", "x", "c">>

\* the statements of a def after its first one
Bodies ==
    { <<Pass>>,
      \* if x: raise Foo()
      <<Node("If", <<NameX, RaiseCall(Foo)>>)>>,
      \* for x in x: / if x and x and x: / while x: pass / else: if x: pass
      <<Node("For", <<NameX, NameX,
            Node("If", <<BoolOp("And", <<NameX, NameX, NameX>>),
                         Node("While", <<NameX, Pass>>),
                         Node("If", <<NameX, Pass>>)>>)>>)>>,
      \* try: with x: pass / except: raise / except: raise exc from x
      <<Node("Try", <<Node("With", <<Node("withitem", <<NameX>>), Pass>>),
                      Node("ExceptHandler", <<Raise(<<>>)>>),
                      Node("ExceptHandler", <<NameX, Raise(<<Name(LowerExc), NameX>>)>>)>>)>>,
      \* raise mod.Foo() / raise Foo() / raise Bar / raise exc / raise mod.Foo /
      \* raise x()() / raise
      <<Raise(<<Call(Attribute(NameX, Foo), <<One>>)>>), RaiseCall(Foo),
        Raise(<<Name(Bar)>>), Raise(<<Name(LowerExc)>>),
        Raise(<<Attribute(NameX, Foo)>>),
        Raise(<<Call(Call(NameX, <<>>), <<>>)>>), Raise(<<>>)>>,
      \* def g(): / if x or x: raise Bar() ; then raise Foo()
      <<FunctionDefWith(<<"g">>, 3, NoArguments,
            <<Node("If", <<BoolOp("Or", <<NameX, NameX>>), RaiseCall(Bar)>>)>>),
        RaiseCall(Foo)>>,
      \* try: pass / except* x: pass ; async with x: pass /
      \* return (x if x else x) / [x for x in x if x]
      <<Node("TryStar", <<Pass, Node("ExceptHandler", <<NameX, Pass>>)>>),
        Node("AsyncWith", <<Node("withitem", <<NameX>>), Pass>>),
        Node("Return", <<Node("IfExp", <<NameX, NameX, NameX>>)>>),
        Expr(Node("ListComp", <<NameX, Node("comprehension", <<NameX, NameX, NameX>>)>>))>>,
      \* x = (x or x) and x ; a str constant that is not the first statement
      <<Node("Assign", <<NameX, BoolOp("And", <<XorY, NameX>>)>>),
        Expr(Constant("str", <<"A", ".">>))>> }

\* the first statement of a def: nothing, a docstring, or a constant that is none
FirstStatements ==
    { <<>>,
      <<Expr(Constant("str", <<"A", ".">>))>>,
      <<Expr(Constant("str", <<SP, "A", ".", NL, SP, SP, SP, "b", NL, SP, SP>>))>>,
      <<Expr(Constant("str", <<>>))>>,
      <<Expr(Constant("int", <<"1">>))>>,
      <<Expr(Constant("bytes", <<"A", ".">>))>>,
      <<Expr(NameX)>> }

Defs ==
    { FunctionDefWith(<<"f">>, 2, args, first \o body) :
        args \in ParameterLists, first \in FirstStatements, body \in Bodies }

\* a module that holds the def, or a class with the def as a method, after an import
ModulesOf(item) ==
    { <<Import(1, <<Alias(<<"o">>, None)>>), item>>,
      <<ClassDef(<<"C">>, 1, None, <<item>>)>>,
      <<ClassDef(<<"C">>, 1, <<"A", ".">>, <<Pass, item>>), item>> }

InitExtract ==
    /\ ex_tree \in UNION { ModulesOf(item) : item \in Defs }
    /\ InitExtractState
    /\ scan_results = <<>>
    /\ disk = [p \in Paths |-> Unreadable]
    /\ InitValidatorState
    /\ per_file_results = <<>>
    /\ InitCoverageState
    /\ fs_dirs = <<>>
    /\ fs_files = <<>>
    /\ InitParserState

NextExtract ==
    \/ extract_functions /\ UNCHANGED <<vvars, cvars, pvars>>
    \/ extract_classes /\ UNCHANGED <<vvars, cvars, pvars>>

SpecExtract == InitExtract /\ [][NextExtract]_vars

-----------------------------------------------------------------------------
(* Properties of the extractor *)

\* C12 (defaults alignment): for every top-level function record, the i-th
\* defaults entry (from 0) has arg_index = (len(args) - len(defaults)) + i, and
\* that value is a valid zero-based index into the record's args, 0 <= arg_index
\* < len(args), for every parameter list, positional-only and keyword-only
\* parameters with defaults included.
C12_DefaultsAlignment ==
    \A k \in 1..Len(ex_functions) :
        LET f == ex_functions[k]
        IN  \A i \in 1..Len(f.defaults) :
                /\ f.defaults[i].arg_index = (Len(f.args) - Len(f.defaults)) + (i - 1)
                /\ 0 <= f.defaults[i].arg_index
                /\ f.defaults[i].arg_index < Len(f.args)


\* the def nodes the function records are made from, and those of a class
TopLevelDefs == SelectSeq(ex_tree, LAMBDA item : item.type = "FunctionDef")
TopLevelClasses == SelectSeq(ex_tree, LAMBDA item : item.type = "ClassDef")
MethodDefs(class) == SelectSeq(class.body, LAMBDA item : item.type = "FunctionDef")

\* the nodes of the subtree of a node, the node included
RECURSIVE Subtree(_)
Subtree(node) ==
    LET children == iter_child_nodes(node)
    IN  {node} \cup UNION { Subtree(children[k]) : k \in 1..Len(children) }

\* the name a raise statement resolves to, as a set: empty when it has none
ResolvedName(stmt) ==
    IF stmt.body = <<>> THEN {}
    ELSE LET exc == stmt.body[1]
         IN  IF exc.type = "Call" /\ exc.body[1].type = "Name" THEN {exc.body[1].name}
             ELSE IF exc.type = "Call" /\ exc.body[1].type = "Attribute"
                  THEN {exc.body[1].name}
             ELSE IF exc.type = "Name" THEN {exc.name}
             ELSE {}

RaiseStatements(node) == { n \in Subtree(node) : n.type = "Raise" }

\* raises of a record is strictly increasing and holds the resolved names of the
\* raise statements below the def
RaisesRule(record, node) ==
    /\ \A i \in 1..(Len(record.raises) - 1) :
           StrLess(record.raises[i], record.raises[i + 1])
    /\ Range(record.raises) = UNION { ResolvedName(s) : s \in RaiseStatements(node) }

\* C13 (raised-exception set): for every function and method record, raises is
\* the sorted list without duplicates of the names resolved from every raise
\* statement anywhere in the subtree of its def: the callee name of a raised call,
\* the attribute name of a raised qualified call, the identifier of a raised bare
\* name, and nothing for a raise without expression.
C13_RaisedSet ==
    /\ xpc # "idle" =>
           /\ Len(ex_functions) = Len(TopLevelDefs)
           /\ \A k \in 1..Len(ex_functions) : RaisesRule(ex_functions[k], TopLevelDefs[k])
    /\ xpc = "done" =>
           /\ Len(ex_classes) = Len(TopLevelClasses)
           /\ \A c \in 1..Len(ex_classes) :
                  LET defs == MethodDefs(TopLevelClasses[c])
                  IN  /\ Len(ex_classes[c].methods) = Len(defs)
                      /\ \A j \in 1..Len(defs) :
                             RaisesRule(ex_classes[c].methods[j], defs[j])

\* a function and a method whose def raises Foo twice (one of them qualified)
\* before Bar and exc, and holds a raise of an attribute that is not called and a
\* raise without expression
C13_Witness ==
    /\ xpc = "done"
    /\ \E k \in 1..Len(ex_functions) :
           /\ ex_functions[k].raises = <<Bar, Foo, LowerExc>>
           /\ Cardinality(RaiseStatements(TopLevelDefs[k])) >= 7
    /\ \E c \in 1..Len(ex_classes) : \E j \in 1..Len(ex_classes[c].methods) :
           ex_classes[c].methods[j].raises = <<Bar, Foo, LowerExc>>

\* what one node adds to the complexity: 1 for an if, for or while statement, an
\* except handler or a with statement, N - 1 for an and/or expression of N operands
Branches(node) ==
    IF node.type \in {"If", "For", "While", "ExceptHandler", "With"} THEN 1
    ELSE IF node.type = "BoolOp" THEN Len(node.body) - 1
    ELSE 0

\* the sum of Branches over the subtree of a node, counted depth first
RECURSIVE BranchesBelow(_)
BranchesBelow(node) ==
    LET children == iter_child_nodes(node)
    IN  Branches(node) + Sum([k \in 1..Len(children) |-> BranchesBelow(children[k])])

ComplexityRule(record, node) ==
    /\ record.complexity = 1 + BranchesBelow(node)
    /\ record.complexity >= 1
    /\ (\A n \in Subtree(node) : Branches(n) = 0) => record.complexity = 1

\* C14 (complexity): for every function and method record, complexity is 1 plus
\* the number of if, for and while statements, except handlers and with
\* statements anywhere in the subtree of its def, the bodies of nested defs
\* included, plus N - 1 for every and/or expression with N operands; so it is at
\* least 1, and exactly 1 for a def with none of these.
C14_Complexity ==
    /\ xpc # "idle" =>
           \A k \in 1..Len(ex_functions) :
               ComplexityRule(ex_functions[k], TopLevelDefs[k])
    /\ xpc = "done" =>
           \A c \in 1..Len(ex_classes) :
               LET defs == MethodDefs(TopLevelClasses[c])
               IN  \A j \in 1..Len(defs) :
                       ComplexityRule(ex_classes[c].methods[j], defs[j])

\* a function and a method of complexity 4 that owe 2 of it to an if with an or
\* inside a nested def, and 1 to an or in a default value
C14_Witness ==
    /\ xpc = "done"
    /\ \E k \in 1..Len(ex_functions) :
           /\ ex_functions[k].complexity = 4
           /\ \E g \in Range(TopLevelDefs[k].body) :
                  g.type = "FunctionDef" /\ BranchesBelow(g) = 2
    /\ \E c \in 1..Len(ex_classes) : \E j \in 1..Len(ex_classes[c].methods) :
           /\ ex_classes[c].methods[j].complexity = 4
           /\ \E g \in Range(MethodDefs(TopLevelClasses[c])[j].body) :
                  g.type = "FunctionDef" /\ BranchesBelow(g) = 2

\* the statements that open a nesting level
NestingStatements == {"If", "For", "While", "With", "Try"}

\* for every node of the subtree, the number of nesting statements on the path
\* from the root to it, both ends counted; above is the number over the node
RECURSIVE PathCounts(_, _)
PathCounts(node, above) ==
    LET here == IF node.type \in NestingStatements THEN above + 1 ELSE above
        children == iter_child_nodes(node)
    IN  {here} \cup UNION { PathCounts(children[k], here) : k \in 1..Len(children) }

\* C15 (nesting depth): for every top-level function record, nesting_depth is the
\* maximum, over the nodes of the subtree of its def, of the number of if, for,
\* while, with and try statements on the path from the def to the node; other
\* statements and expressions add nothing, so nesting_depth is at least 0, and 0
\* exactly when the def holds none of these statements.
C15_NestingDepth ==
    xpc # "idle" =>
        \A k \in 1..Len(ex_functions) :
            LET record == ex_functions[k]
                node == TopLevelDefs[k]
            IN  /\ record.nesting_depth = Max(PathCounts(node, 0))
                /\ record.nesting_depth >= 0
                /\ record.nesting_depth = 0 <=>
                       \A n \in Subtree(node) : n.type \notin NestingStatements

\* a function of nesting depth 3 (a while in an if in a for) that holds a fourth
\* nesting statement beside the deepest one
C15_Witness ==
    /\ xpc = "done"
    /\ \E k \in 1..Len(ex_functions) :
           /\ ex_functions[k].nesting_depth = 3
           /\ Cardinality({ n \in Subtree(TopLevelDefs[k]) :
                              n.type \in NestingStatements }) = 4

\* the first statement of the body is an expression statement that is nothing but
\* a string literal
FirstIsStringLiteral(node) ==
    /\ node.body # <<>>
    /\ Head(node.body).type = "Expr"
    /\ Head(node.body).body[1].type = "Constant"
    /\ Head(node.body).body[1].kind = "str"

\* text is literal dedented: its lines are those of literal, the first without
\* its leading blanks and the others without the margin common to the lines
\* that are not blank, less the empty lines at both ends
Dedented(text, literal) ==
    LET from == Split(literal, NL)
        to == IF text = <<>> THEN <<>> ELSE Split(text, NL)
        inked == { i \in 2..Len(from) : LStripChars(from[i], Whitespace) # <<>> }
    IN  \E margin \in 0..Len(literal), lead \in 0..Len(from) :
            LET Cut(i) == IF i = 1 THEN LStripChars(from[1], Whitespace)
                          ELSE IF inked = {} THEN from[i]
                          ELSE SubSeq(from[i], margin + 1, Len(from[i]))
            IN  /\ \A i \in inked : Indent(from[i]) >= margin
                /\ inked # {} => \E i \in inked : Indent(from[i]) = margin
                /\ lead + Len(to) <= Len(from)
                /\ \A i \in 1..Len(to) : to[i] = Cut(i + lead)
                /\ \A i \in (1..lead) \cup ((lead + Len(to) + 1)..Len(from)) :
                       Cut(i) = <<>>
                /\ to # <<>> => to[1] # <<>> /\ to[Len(to)] # <<>>

DocstringRule(record, node) ==
    /\ record.has_docstring <=> FirstIsStringLiteral(node)
    /\ record.docstring # None <=> record.has_docstring
    /\ record.docstring # None =>
           LET doc == record.docstring
           IN  /\ StartsWith(doc, DQ3 \o <<NL>>)
               /\ EndsWith(doc, <<NL>> \o DQ3)
               /\ Len(doc) >= 8
               /\ Dedented(SubSeq(doc, 5, Len(doc) - 4),
                           Head(node.body).body[1].value)

\* C16 (docstring extraction): for every function, method and class record,
\* has_docstring is true iff the first statement of the body is a bare string
\* literal, docstring is not null iff has_docstring is true, and a docstring that
\* is not null is the dedented text of the literal, wrapped so that it starts
\* with three double quotes and ends with three double quotes.
C16_DocstringExtraction ==
    /\ xpc # "idle" =>
           \A k \in 1..Len(ex_functions) :
               DocstringRule(ex_functions[k], TopLevelDefs[k])
    /\ xpc = "done" =>
           \A c \in 1..Len(ex_classes) :
               LET defs == MethodDefs(TopLevelClasses[c])
               IN  /\ DocstringRule(ex_classes[c], TopLevelClasses[c])
                   /\ \A j \in 1..Len(defs) :
                          DocstringRule(ex_classes[c].methods[j], defs[j])

\* a function and a method with a docstring of three indented lines, extracted
\* as two lines without indentation, in a class that has a docstring too
C16_Witness ==
    /\ xpc = "done"
    /\ \E k \in 1..Len(ex_functions) :
           ex_functions[k].docstring = DQ3 \o <<NL, "A", ".", NL, "b", NL>> \o DQ3
    /\ \E c \in 1..Len(ex_classes) :
           /\ ex_classes[c].has_docstring
           /\ ex_classes[c].docstring = DQ3 \o <<NL, "A", ".", NL>> \o DQ3
           /\ \E j \in 1..Len(ex_classes[c].methods) :
                  ex_classes[c].methods[j].docstring =
                      DQ3 \o <<NL, "A", ".", NL, "b", NL>> \o DQ3

-----------------------------------------------------------------------------
(* Which files a scan returns *)

\* path lies below the directory root
Below(root, path) == StartsWith(path, Join(root, <<>>)) /\ path # Join(root, <<>>)

\* the names on the way from root down to path, the name of path last
NamesBelow(root, path) ==
    Split(SubSeq(path, Len(Join(root, <<>>)) + 1, Len(path)), "/")

\* path lies in a directory below root whose name, or the name of a directory
\* above it below root, is in the skip set
UnderSkipped(root, path) ==
    /\ Below(root, path)
    /\ \E i \in 1..(Len(NamesBelow(root, path)) - 1) :
           Contains(skip_dirs, NamesBelow(root, path)[i])

\* the files of the file system whose name ends with .py
PyFiles == { f \in DOMAIN fs_files : EndsWith(f, DotPy) }

\* C17 (skip-set pruning): in a recursive scan of a directory, no file under a
\* subdirectory whose name is in the skip set, at any depth below the root, is
\* ever come across, and parse_path returns no record for such a file; every
\* file that ends with .py below the root and not under such a directory has a
\* record.
C17_SkipSetPruning ==
    (ppc # "idle" /\ recursive /\ isdir(path_arg)) =>
        /\ \A i \in 1..Len(discovered) : ~UnderSkipped(path_arg, discovered[i])
        /\ ppc = "files" => ~UnderSkipped(path_arg, Join(walk_root, <<"x">>))
        /\ \A i \in 1..Len(path_results) :
               ~UnderSkipped(path_arg, path_results[i].file_path)
        /\ ppc = "done" =>
               \A f \in PyFiles :
                   (Below(path_arg, f) /\ ~UnderSkipped(path_arg, f)) =>
                       \E i \in 1..Len(path_results) : path_results[i].file_path = f

\* a recursive scan that returned the file of a directory below the root and
\* none for the .py file two levels down, under a directory of the skip set
C17_Witness ==
    /\ ppc = "done" /\ recursive /\ isdir(path_arg)
    /\ skip_dirs # <<>>
    /\ \E f \in PyFiles :
           /\ UnderSkipped(path_arg, f)
           /\ Len(NamesBelow(path_arg, f)) = 3
    /\ \E i \in 1..Len(path_results) :
           Len(NamesBelow(path_arg, path_results[i].file_path)) = 2

-----------------------------------------------------------------------------
(* Scans of one directory tree, one after the other *)

\* the caller calls parse_path again
parse_path_again ==
    /\ ppc = "done"
    /\ Cardinality(returned) < MaxCalls
    /\ ppc' = "idle"
    /\ UNCHANGED <<fs_dirs, fs_files, path_arg, recursive, skip_dirs, path_results,
                   walk_stack, walk_root, walk_dirs, walk_files, discovered, runs,
                   returned>>

\* every file that ends with .py holds a module without statements
InitRescan ==
    /\ fs_dirs \in Trees
    /\ fs_files = [p \in FilesOf(fs_dirs) |->
                      IF EndsWith(p, DotPy) THEN SourceFile("none", 0, <<>>, <<>>)
                      ELSE TextFile]
    /\ InitParserState
    /\ ex_tree = <<>>
    /\ InitExtractState
    /\ scan_results = <<>>
    /\ disk = [p \in Paths |-> Unreadable]
    /\ InitValidatorState
    /\ per_file_results = <<>>
    /\ InitCoverageState

NextRescan ==
    \/ parse_path_call /\ UNCHANGED <<vvars, cvars, xvars>>
    \/ walk_yield /\ UNCHANGED <<vvars, cvars, xvars>>
    \/ parse_path_file /\ UNCHANGED <<vvars, cvars, xvars>>
    \/ walk_descend /\ UNCHANGED <<vvars, cvars, xvars>>
    \/ parse_path_return /\ UNCHANGED <<vvars, cvars, xvars>>
    \/ parse_path_again /\ UNCHANGED <<vvars, cvars, xvars>>

SpecRescan == InitRescan /\ [][NextRescan]_vars

\* the files with a name that ends with .py that sit in the directory root
DirectPyFiles(root) ==
    { f \in PyFiles : Below(root, f) /\ Len(NamesBelow(root, f)) = 1 }

\* C18 (non-recursive scan): with recursive = false and a directory root,
\* parse_path returns records for exactly the files that end with .py and sit
\* directly in the root, and for no file of a subdirectory; and the set of files
\* of such a scan is a subset of the set a scan with recursive = true returns for
\* the same root and the same skip set.
C18_NonRecursiveScan ==
    /\ (ppc = "done" /\ ~recursive /\ isdir(path_arg)) =>
           { path_results[i].file_path : i \in 1..Len(path_results) }
               = DirectPyFiles(path_arg)
    /\ \A flat, deep \in returned :
           (/\ ~flat.recursive /\ deep.recursive
            /\ flat.path = deep.path /\ flat.skip = deep.skip
            /\ isdir(flat.path)) =>
               /\ flat.files \subseteq deep.files
               /\ flat.files = DirectPyFiles(flat.path)

\* the root scanned without and with recursion under one skip set: the first scan
\* returned its one direct file and not the file it has in a subdirectory, the
\* second returned more
C18_Witness ==
    /\ ppc = "done"
    /\ \E flat, deep \in returned :
           /\ ~flat.recursive /\ deep.recursive
           /\ flat.path = deep.path /\ flat.skip = deep.skip
           /\ isdir(flat.path)
           /\ flat.skip # <<>>
           /\ Cardinality(flat.files) = 1
           /\ Cardinality(deep.files) > Cardinality(flat.files)
           /\ \E f \in PyFiles : Below(flat.path, f) /\ f \notin flat.files

-----------------------------------------------------------------------------
(* Further properties of the validator: what a message says *)

\* the entities of the scanned records a violation can be about: those of its
\* file with the qualified name its message embeds
EntitiesNamedBy(v) ==
    { ent \in UNION { EntitiesOf(scan_results[i]) : i \in 1..Len(scan_results) } :
        ent.file = v.file /\ ent.location = QualifiedNameIn(v.message) }

\* C19 (violation message content): every violation the validator produces, of
\* every rule code, has a message that embeds its own code, the label of the kind
\* of its entity (method, function or class) and the qualified name of the entity
\* (ClassName.method_name for a method, the plain name for a top-level function
\* or a class).
C19_MessageContent ==
    \A v \in Range(all_violations) :
        /\ v.code \in Range(v.message)
        /\ \E ent \in EntitiesNamedBy(v) : ent.kind \in Range(v.message)

-----------------------------------------------------------------------------
(* A file parsed and then validated against its own text *)

\* parse_file returns the record of the file at PathA
parse_file_return ==
    /\ xpc = "done"
    /\ xpc' = "returned"
    /\ scan_results' =
           << [file_path |-> PathA, imports |-> parse_imports(ex_tree),
               parsing_errors |-> <<>>, functions |-> ex_functions,
               classes |-> ex_classes] >>
    /\ UNCHANGED <<ex_tree, ex_functions, ex_classes>>
    /\ UNCHANGED <<disk, vpc, file_idx, violations, all_violations, report, seen,
                   prev_report, prev_seen, calls>>

\* n blanks before a line that is not empty
Pad(n, line) == IF line = <<>> THEN <<>> ELSE [i \in 1..n |-> SP] \o line

Summary == <<"A", ".">>
Detail == <<"b", ".">>

\* the lines a docstring is written on, without their indentation
DocLayouts ==
    { \* """A."""
      <<DQ3 \o Summary \o DQ3>>,
      \* """ / A. / """
      <<DQ3, Summary, DQ3>>,
      \* """A. / b. / """
      <<DQ3 \o Summary, Detail, DQ3>>,
      \* """ / A. / (empty) / b. / """
      <<DQ3, Summary, <<>>, Detail, DQ3>>,
      \* """A. / (empty) / b."""
      <<DQ3 \o Summary, <<>>, Detail \o DQ3>> }

LineX == <<"x">>
LineDefG == <<"d", "e", "f", SP, "g", "(", ")", ":", SP, "x">>

\* the lines after the docstring, without their indentation
Tails ==
    { <<LineX>>,
      <<<<>>, LineX>>,
      <<<<>>, <<>>, LineX>>,
      <<<<>>, LineDefG>>,
      <<<<>>, LineX, LineX>>,
      <<LineX, LineX, <<>>, LineX>>,
      <<LineX, <<>>, LineX, <<>>, LineX>> }

\* the statements ast.parse makes of the lines of a tail
TailStatements(tail, first_lineno) ==
    LET lines == { i \in 1..Len(tail) : tail[i] # <<>> }
        Statement(i) ==
            IF tail[i] = LineDefG
            THEN FunctionDefWith(<<"g">>, first_lineno + i - 1, NoArguments,
                                 <<Expr(NameX)>>)
            ELSE Expr(NameX)
        RECURSIVE From(_)
        From(i) == IF i > Len(tail) THEN <<>>
                   ELSE IF i \in lines THEN <<Statement(i)>> \o From(i + 1)
                   ELSE From(i + 1)
    IN  From(1)

\* def f(): at line def_lineno, indented by pad, with its docstring and tail, as
\* the lines of the file and as the node ast.parse makes of them
DefLines(pad, doc, tail) ==
    <<Pad(pad, LDef)>>
    \o [i \in 1..Len(doc) |-> Pad(pad + 1, doc[i])]
    \o [i \in 1..Len(tail) |-> Pad(pad + 1, tail[i])]

DefNode(pad, def_lineno, doc, tail) ==
    LET text == JoinLines([i \in 1..Len(doc) |-> Pad(pad + 1, doc[i])])
        literal == SubSeq(text, pad + 1 + 4, Len(text) - 3)
    IN  FunctionDefWith(<<"f">>, def_lineno, NoArguments,
            <<Expr(Constant("str", literal))>>
            \o TailStatements(tail, def_lineno + Len(doc) + 1))

LClass == <<"c", "l", "a", "s", "s", SP, "C", ":">>

\* a file with f as a top-level function, or as a method of the class C
SourcesWithDocstring ==
    { [text |-> JoinLines(DefLines(0, doc, tail)),
       tree |-> <<DefNode(0, 1, doc, tail)>>] : doc \in DocLayouts, tail \in Tails }
    \cup
    { [text |-> JoinLines(<<LClass>> \o DefLines(1, doc, tail)),
       tree |-> <<ClassDef(<<"C">>, 1, None, <<DefNode(1, 2, doc, tail)>>)>>] :
        doc \in DocLayouts, tail \in Tails }

InitParseValidate ==
    /\ \E file \in SourcesWithDocstring :
           /\ ex_tree = file.tree
           /\ disk = [p \in Paths |->
                         IF p = PathA THEN DiskFile(TRUE, file.text) ELSE Unreadable]
    /\ InitExtractState
    /\ scan_results = <<>>
    /\ InitValidatorState
    /\ per_file_results = <<>>
    /\ InitCoverageState
    /\ fs_dirs = <<>>
    /\ fs_files = <<>>
    /\ InitParserState

NextParseValidate ==
    \/ extract_functions /\ UNCHANGED <<vvars, cvars, pvars>>
    \/ extract_classes /\ UNCHANGED <<vvars, cvars, pvars>>
    \/ parse_file_return /\ UNCHANGED <<cvars, pvars>>
    \/ xpc = "returned" /\ validate_project_call /\ UNCHANGED <<cvars, pvars, xvars>>
    \/ validate_file_step /\ UNCHANGED <<cvars, pvars, xvars>>
    \/ validate_project_return /\ UNCHANGED <<cvars, pvars, xvars>>

SpecParseValidate == InitParseValidate /\ [][NextParseValidate]_vars

\* the number of the line of the text on which its first docstring closes: the
\* line that holds the second run of three double quotes
RECURSIVE CountDQ3(_)
CountDQ3(line) ==
    IF Len(line) < 3 THEN 0
    ELSE IF StartsWith(line, DQ3) THEN 1 + CountDQ3(SubSeq(line, 4, Len(line)))
    ELSE CountDQ3(Tail(line))

ClosingLine(lines) ==
    CHOOSE n \in 1..Len(lines) :
        /\ Sum([i \in 1..n |-> CountDQ3(lines[i])]) >= 2
        /\ \A k \in 1..(n - 1) : Sum([i \in 1..k |-> CountDQ3(lines[i])]) < 2

\* in the text, a blank line follows the line the docstring closes on, and the
\* line after it is code that does not start with def or class
BlankLineAfterDocstring(text) ==
    LET lines == Split(text, NL)
        closing == ClosingLine(lines)
    IN  /\ closing + 2 <= Len(lines)
        /\ Strip(lines[closing + 1]) = <<>>
        /\ Strip(lines[closing + 2]) # <<>>
        /\ ~StartsWith(Strip(lines[closing + 2]), <<"d", "e", "f", SP>>)
        /\ ~StartsWith(Strip(lines[closing + 2]), <<"c", "l", "a", "s", "s", SP>>)

\* C20 (D202 detection): for a public function or method extracted from a source
\* file and validated against that same source, D202 is reported iff in the
\* source a blank line immediately follows the closing line of the docstring and
\* the line after that blank line is code that is not blank and does not start
\* with def or class, for a docstring of any layout: on one line or on several,
\* with or without blank lines inside.
C20_D202Detection ==
    (xpc = "returned" /\ vpc = "done") =>
        ((\E v \in Range(all_violations) : v.code = "D202")
             <=> BlankLineAfterDocstring(disk[PathA].text))

-----------------------------------------------------------------------------
(* Files with blank lines between the def line and the docstring *)

\* the most blank lines between a def line and its docstring
MaxGap == 2

\* the lines of code before the def or the class
Preludes == { <<>>, <<LineX, LineX>> }

\* def f(): with gap blank lines before its docstring, after the lines of before
GapFile(before, pad, gap, doc) ==
    LET def_lineno == Len(before) + pad + 1
        def == <<Pad(pad, LDef)>>
               \o [i \in 1..gap |-> <<>>]
               \o [i \in 1..Len(doc) |-> Pad(pad + 1, doc[i])]
               \o <<Pad(pad + 1, LineX)>>
        node == DefNode(pad, def_lineno, doc, <<LineX>>)
        prelude == [i \in 1..Len(before) |-> Expr(NameX)]
    IN  [text |-> JoinLines(before \o (IF pad = 1 THEN <<LClass>> ELSE <<>>) \o def),
         tree |-> prelude \o (IF pad = 1 THEN <<ClassDef(<<"C">>, Len(before) + 1, None,
                                                         <<node>>)>>
                              ELSE <<node>>)]

SourcesWithGap ==
    { GapFile(before, pad, gap, doc) :
        before \in Preludes, pad \in {0, 1}, gap \in 0..MaxGap,
        doc \in { <<DQ3 \o Summary \o DQ3>>, <<DQ3, Summary, DQ3>>,
                  <<DQ3 \o Summary, Detail, DQ3>> } }

InitGapValidate ==
    /\ \E file \in SourcesWithGap :
           /\ ex_tree = file.tree
           /\ disk = [p \in Paths |->
                         IF p = PathA THEN DiskFile(TRUE, file.text) ELSE Unreadable]
    /\ InitExtractState
    /\ scan_results = <<>>
    /\ InitValidatorState
    /\ per_file_results = <<>>
    /\ InitCoverageState
    /\ fs_dirs = <<>>
    /\ fs_files = <<>>
    /\ InitParserState

SpecGapValidate == InitGapValidate /\ [][NextParseValidate]_vars

\* the function or method record of the file
TheDef ==
    IF scan_results[1].functions # <<>> THEN scan_results[1].functions[1]
    ELSE scan_results[1].classes[1].methods[1]

\* the number of the first line of the text that holds three double quotes
OpeningLine(lines) ==
    CHOOSE n \in 1..Len(lines) :
        /\ CountDQ3(lines[n]) > 0
        /\ \A k \in 1..(n - 1) : CountDQ3(lines[k]) = 0

\* the blank lines between the def line and the line the docstring opens on
BlankLinesBeforeDocstring(text, start_line) ==
    LET lines == Split(text, NL)
    IN  { i \in (start_line + 1)..(OpeningLine(lines) - 1) : Strip(lines[i]) = <<>> }

\* C21 (D201 detection): for a public function or method that has a docstring and
\* whose source is available, D201 is reported iff at least one blank line lies
\* between the definition line at start_line and the line on which the opening
\* quotes of the docstring appear, however many blank lines there are and
\* wherever in the file the function is.
C21_D201Detection ==
    (xpc = "returned" /\ vpc = "done") =>
        ((\E v \in Range(all_violations) : v.code = "D201")
             <=> BlankLinesBeforeDocstring(disk[PathA].text, TheDef.start_line) # {})

-----------------------------------------------------------------------------
(* Records with docstrings of many shapes, validated with and without source *)

Quoted(quotes, content) == quotes \o content \o quotes

Docstrings ==
    { \* A.
      Quoted(DQ3, <<"A", ".">>),
      \* A. on a line of its own between the quotes
      Quoted(DQ3, <<NL, "A", ".", NL>>),
      \* A. with the closing quotes on the next line
      Quoted(DQ3, <<"A", ".", NL>>),
      \* two lines, the closing quotes after the text
      Quoted(DQ3, <<"A", ".", NL, "b", ".">>),
      \* two lines, the closing quotes on a line of their own
      Quoted(DQ3, <<"A", ".", NL, "b", ".", NL>>),
      \* two lines, the closing quotes indented on a line of their own
      Quoted(DQ3, <<"A", ".", NL, "b", ".", NL, SP>>),
      \* three lines without a blank one
      Quoted(DQ3, <<"A", ".", NL, "b", ".", NL, "c", ".", NL>>),
      \* summary, blank line, description
      Quoted(DQ3, <<"A", ".", NL, NL, "c", ".", NL>>),
      \* summary, a line of blanks, description, in single quotes
      Quoted(SQ3, <<"A", ".", NL, SP, NL, "c", ".", NL>>),
      \* no period, an exclamation mark, a question mark
      Quoted(DQ3, <<"A">>),
      Quoted(DQ3, <<"A", "!">>),
      Quoted(SQ3, <<"A", "?">>),
      \* a period that is not last on the first line
      Quoted(DQ3, <<"A", ".", "b", NL, NL, "c", ".", NL>>),
      \* nothing, blanks, a newline
      Quoted(DQ3, <<>>),
      Quoted(DQ3, <<SP, SP>>),
      Quoted(DQ3, <<NL>>),
      \* a signature; one parenthesis; the parentheses on the second line
      Quoted(DQ3, <<"f", "(", ")", ".">>),
      Quoted(DQ3, <<"f", "(", ".">>),
      Quoted(DQ3, <<"A", ".", NL, NL, "f", "(", ")", NL>>) }

DocumentedWith(docstring) == [has_docstring |-> TRUE, docstring |-> docstring]

\* a.py with one entity that has the docstring: a function, a class, or a method
\* of a documented class
FormatFiles ==
    { FileRecord(PathA, <<FunctionRecord(<<"f">>, 1, DocumentedWith(d))>>, <<>>) :
        d \in Docstrings }
    \cup { FileRecord(PathA, <<>>, <<ClassRecord(cn, 1, DocumentedWith(d), <<>>)>>) :
             cn \in {<<"C">>, <<"_", "D">>}, d \in Docstrings }
    \cup { FileRecord(PathA, <<>>,
               <<ClassRecord(cn, 1, DocumentedWith(DocGood),
                     <<FunctionRecord(<<"f">>, 1, DocumentedWith(d))>>)>>) :
             cn \in {<<"C">>, <<"_", "D">>}, d \in Docstrings }

\* texts whose lines are by turns code and blank: every second line is a blank
\* line followed by code
SrcOdd == JoinLines(<<LDef, LCode, <<>>, LCode, <<>>, LCode, <<>>, LCode>>)
SrcEven == JoinLines(<<LDef, LCode, LCode, <<>>, LCode, <<>>, LCode, <<>>, LCode>>)

FormatSources == { Unreadable, DiskFile(TRUE, SrcOdd), DiskFile(TRUE, SrcEven) }

InitFormat ==
    /\ scan_results \in { <<r>> : r \in FormatFiles }
    /\ \E src \in FormatSources : disk = [p \in Paths |-> src]
    /\ InitValidatorState
    /\ per_file_results = <<>>
    /\ InitCoverageState
    /\ fs_dirs = <<>>
    /\ fs_files = <<>>
    /\ InitParserState
    /\ ex_tree = <<>>
    /\ InitExtractState

SpecFormat == InitFormat /\ [][NextValidate]_vars

\* the name of the class a method is in, <<>> for a function or a class
ClassOf(ent) ==
    IF ent.kind = "method" THEN Head(Split(ent.location, ".")) ELSE <<>>

\* the entities whose docstring the validator examines: functions and methods
\* whose name is not private, classes whose name does not start with an
\* underscore and their methods, with a docstring that is not empty
Checked(ent) ==
    /\ ent.has_docstring
    /\ Truthy(ent.docstring)
    /\ IF ent.kind = "class" THEN ~StartsWith(ent.name, <<"_">>)
       ELSE ~Private(ent.name) /\ ~StartsWith(ClassOf(ent), <<"_">>)

\* the entities that are examined, over all records
CheckedEntities ==
    { ent \in UNION { EntitiesOf(scan_results[i]) : i \in 1..Len(scan_results) } :
        Checked(ent) }

\* the codes of the violations reported for an entity
CodesOf(ent) ==
    { v.code : v \in Range(ViolationsOf(ent, all_violations)) }

\* the text between the delimiters of a docstring
Between(docstring) == SubSeq(docstring, 4, Len(docstring) - 3)

\* the content of a docstring: delimiters and surrounding whitespace removed
ContentOf(docstring) == Strip(Between(docstring))

\* the content lines that are not blank
NonBlankLines(docstring) ==
    LET lines == Split(ContentOf(docstring), NL)
    IN  { i \in 1..Len(lines) : Strip(lines[i]) # <<>> }

\* C22 (D200 detection): when the docstring of a checked entity has exactly one
\* content line that is not blank but holds a newline between its delimiters (the
\* summary is split from its quotes across lines), validation reports a D200
\* violation for that entity.
C22_D200Detection ==
    vpc = "done" =>
        \A ent \in CheckedEntities :
            (/\ Cardinality(NonBlankLines(ent.docstring)) = 1
             /\ Contains(Between(ent.docstring), NL)) =>
                "D200" \in CodesOf(ent)

\* the closing delimiter of a docstring stands on a line of its own: without
\* its trailing whitespace the docstring ends with a newline and three quotes
ClosesOnOwnLine(docstring) ==
    \/ EndsWith(RStrip(docstring), <<NL>> \o DQ3)
    \/ EndsWith(RStrip(docstring), <<NL>> \o SQ3)

\* C23 (D209 detection): for a checked entity with a docstring that is not the
\* empty string, a D209 violation is reported exactly when the docstring has
\* more than one content line that is not blank and its closing delimiter is
\* not on a line of its own; a docstring with no or one such line never yields
\* D209.
C23_D209Detection ==
    vpc = "done" =>
        \A ent \in CheckedEntities :
            "D209" \in CodesOf(ent)
                <=> (/\ Cardinality(NonBlankLines(ent.docstring)) > 1
                     /\ ~ClosesOnOwnLine(ent.docstring))

\* the lines of the content of a docstring
ContentLines(docstring) == Split(ContentOf(docstring), NL)

FirstContentLine(docstring) == Strip(Head(ContentLines(docstring)))

\* C25 (D400 detection): for a checked entity with a docstring that is not the
\* empty string, a D400 violation is reported exactly when the first content
\* line of the docstring does not end in '.', '!' or '?', which includes the
\* case of an empty content.
C25_D400Detection ==
    vpc = "done" =>
        \A ent \in CheckedEntities :
            "D400" \in CodesOf(ent)
                <=> ~(\E c \in {".", "!", "?"} :
                          EndsWith(FirstContentLine(ent.docstring), <<c>>))

\* the entities of all records
AllEntities ==
    UNION { EntitiesOf(scan_results[i]) : i \in 1..Len(scan_results) }

\* the first content line of a docstring looks like a signature
HasParentheses(docstring) ==
    /\ Contains(FirstContentLine(docstring), "(")
    /\ Contains(FirstContentLine(docstring), ")")

\* C26 (D402 scope): a D402 violation is reported for a public function or
\* method with a docstring exactly when the first content line of the
\* docstring contains both '(' and ')'; no D402 and no D202 violation is ever
\* reported for a class, whatever its docstring and the source hold.
C26_D402Scope ==
    vpc = "done" =>
        \A ent \in AllEntities :
            /\ (/\ ent.kind \in {"function", "method"}
                /\ ~Private(ent.name)
                /\ ent.has_docstring
                /\ Truthy(ent.docstring))
                   => ("D402" \in CodesOf(ent) <=> HasParentheses(ent.docstring))
            /\ ent.kind = "class" => CodesOf(ent) \cap {"D402", "D202"} = {}

\* the codes of the missing-docstring rules
MissingCodes == {"D101", "D102", "D103"}

\* C27 (the metrics agree with the violations): in every report of
\* validate_project the number of missing-docstring violations (D101, D102,
\* D103) is total_items - compliant_items, and a report without violations has
\* a compliance_percentage of 100 (10000 hundredths) unless it counts no item.
C27_MetricsAgreeWithViolations ==
    vpc = "done" =>
        /\ Len(SelectSeq(report.violations, LAMBDA v : v.code \in MissingCodes))
               = report.total_items - report.compliant_items
        /\ report.total_violations = 0 =>
               (report.compliance_percentage = 10000 \/ report.total_items = 0)

-----------------------------------------------------------------------------
(* cli/commands.py: cmd_scan hands the records of parse_path to
   compute_coverage *)

\* coverage = compute_coverage(results), up to the first record
cmd_scan_compute_coverage ==
    /\ ppc = "done"
    /\ cpc = "idle"
    /\ per_file_results' = path_results
    /\ cpc' = "files"
    /\ cov_idx' = 0
    /\ cov_total_functions' = 0
    /\ successfully_parsed_functions' = 0
    /\ total_parsing_errors' = 0
    /\ file_stats' = <<>>
    /\ UNCHANGED coverage_report

NextScan ==
    \/ parse_path_call /\ UNCHANGED <<vvars, cvars, xvars>>
    \/ walk_yield /\ UNCHANGED <<vvars, cvars, xvars>>
    \/ parse_path_file /\ UNCHANGED <<vvars, cvars, xvars>>
    \/ walk_descend /\ UNCHANGED <<vvars, cvars, xvars>>
    \/ parse_path_return /\ UNCHANGED <<vvars, cvars, xvars>>
    \/ cmd_scan_compute_coverage /\ UNCHANGED <<vvars, pvars, xvars>>
    \/ compute_coverage_file /\ UNCHANGED <<vvars, pvars, xvars>>
    \/ compute_coverage_return /\ UNCHANGED <<vvars, pvars, xvars>>

SpecScan == InitParse /\ [][NextScan]_vars

\* C28 (coverage is two-valued on the output of the extractor): in the report
\* compute_coverage returns for a record list produced by parse_path, every
\* per-file coverage_percentage is 0.0 or 100.0 and a file with parsing errors
\* counts no function, so that overall_coverage_percentage is 100.0 whenever
\* total_functions is positive: a file that fails to parse never lowers it.
C28_CoverageTwoValued ==
    (ppc = "done" /\ cpc = "done") =>
        /\ \A k \in 1..Len(coverage_report.files) :
              /\ coverage_report.files[k].coverage_percentage \in {0, 10000}
              /\ coverage_report.files[k].parsing_errors > 0 =>
                     /\ coverage_report.files[k].total_functions = 0
                     /\ coverage_report.files[k].parsed_functions = 0
        /\ coverage_report.total_functions > 0 =>
               coverage_report.overall_coverage_percentage = 10000

-----------------------------------------------------------------------------
(* Files whose docstrings are written in every quote style *)

\* the delimiters a string literal can have
QuoteStyles == { DQ3, SQ3, <<DQ>>, <<SQ>> }

\* the lines a docstring in the quotes q is written on, without their
\* indentation; only triple quotes can span lines
StyledLayouts(q) ==
    { <<q \o Summary \o q>>, <<q \o q>> }
    \cup (IF Len(q) = 3
          THEN { <<q, Summary, q>>,
                 <<q \o Summary, Detail \o q>>,
                 <<q \o Summary, Detail, q>>,
                 <<q \o Summary, <<>>, Detail \o q>>,
                 <<q \o Summary, <<>>, Detail, q>> }
          ELSE {})

\* the value of the string literal written on the lines doc in the quotes q,
\* its lines indented by pad
Literal(pad, q, doc) ==
    LET text == JoinLines([i \in 1..Len(doc) |-> Pad(pad, doc[i])])
    IN  SubSeq(text, pad + Len(q) + 1, Len(text) - Len(q))

\* f with a docstring as a top-level function
StyledFunction(q, doc) ==
    [text |-> JoinLines(<<LDef>>
                        \o [i \in 1..Len(doc) |-> Pad(1, doc[i])]
                        \o <<Pad(1, LineX)>>),
     tree |-> <<FunctionDefWith(<<"f">>, 1, NoArguments,
                    <<Expr(Constant("str", Literal(1, q, doc))), Expr(NameX)>>)>>]

\* the class C with the docstring cdoc and its method f with the docstring doc
StyledClass(q, cdoc, doc) ==
    [text |-> JoinLines(<<LClass>>
                        \o [i \in 1..Len(cdoc) |-> Pad(1, cdoc[i])]
                        \o <<Pad(1, LDef)>>
                        \o [i \in 1..Len(doc) |-> Pad(2, doc[i])]
                        \o <<Pad(2, LineX)>>),
     tree |-> <<ClassDef(<<"C">>, 1, Literal(1, q, cdoc),
                    <<FunctionDefWith(<<"f">>, Len(cdoc) + 2, NoArguments,
                          <<Expr(Constant("str", Literal(2, q, doc))),
                            Expr(NameX)>>)>>)>>]

SourcesWithQuotes ==
    UNION { { StyledFunction(q, doc) : doc \in StyledLayouts(q) }
            \cup { StyledClass(q, cdoc, <<q \o Summary \o q>>) : cdoc \in StyledLayouts(q) }
            \cup { StyledClass(q, <<q \o Summary \o q>>, doc) : doc \in StyledLayouts(q) } :
            q \in QuoteStyles }

InitQuotes ==
    /\ \E file \in SourcesWithQuotes :
           /\ ex_tree = file.tree
           /\ disk = [p \in Paths |->
                         IF p = PathA THEN DiskFile(TRUE, file.text) ELSE Unreadable]
    /\ InitExtractState
    /\ scan_results = <<>>
    /\ InitValidatorState
    /\ per_file_results = <<>>
    /\ InitCoverageState
    /\ fs_dirs = <<>>
    /\ fs_files = <<>>
    /\ InitParserState

SpecQuotes == InitQuotes /\ [][NextParseValidate]_vars

\* the codes of the rules about the quotes of a docstring
QuoteCodes == {"D300", "D209"}

\* C29 (the quote rules cannot fire on the output of the extractor): for a
\* record produced by parse_file and handed to the validator as it is, no D300
\* and no D209 violation is ever reported, whichever quotes the docstrings have
\* in the file and wherever they close.
C29_QuoteRulesSilent ==
    /\ \A v \in Range(violations) \cup Range(all_violations) : v.code \notin QuoteCodes
    /\ \A i \in 1..Len(seen) : \A v \in Range(seen[i].result) : v.code \notin QuoteCodes

\* a file in single quotes whose docstrings close after text was parsed and
\* validated: a docstring of several content lines was examined
C29_Witness ==
    /\ xpc = "returned"
    /\ vpc = "done"
    /\ Contains(disk[PathA].text, SQ)
    /\ \A line \in Range(Split(disk[PathA].text, NL)) : Strip(line) \notin QuoteStyles
    /\ \E ent \in CheckedEntities : Cardinality(NonBlankLines(ent.docstring)) > 1

\* the lists validate_file returned so far in this call of validate_project
Returned == [i \in 1..Len(seen) |-> seen[i].result]

\* each list returned holds violations of its own file only, and the violations
\* of the project are the lists returned, one after the other
OwnFileOnly ==
    /\ \A i \in 1..Len(seen) : \A v \in Range(seen[i].result) :
           v.file = scan_results[i].file_path
    /\ all_violations = Concat(Returned)
    /\ vpc = "done" =>
           /\ Len(seen) = Len(scan_results)
           /\ report.violations = Concat(Returned)

\* a call of validate_file leaves the lists returned before it as they are
EarlierListsKept ==
    (vpc = "files" /\ vpc' = "files") =>
        /\ Len(seen') = Len(seen) + 1
        /\ \A i \in 1..Len(seen) : seen'[i].result = seen[i].result

\* C30 (no violation leaks between files): validate_file starts every call with
\* an empty list, so the list it returns for a file holds only violations whose
\* file field is the path of that file, the lists returned by earlier calls are
\* not changed by later ones, and the violations of validate_project are the
\* lists of its files one after the other, in the order of the input.
C30_NoLeakBetweenFiles == []OwnFileOnly /\ [][EarlierListsKept]_vars

\* two files of different paths were validated in one call and both have
\* violations
C30_Witness ==
    /\ vpc = "done"
    /\ Len(seen) = 2
    /\ scan_results[1].file_path # scan_results[2].file_path
    /\ seen[1].result # <<>>
    /\ seen[2].result # <<>>
====
